---- MODULE Spec2Model ----
(***************************************************************************)
(* Model of the movi-api backend (Flask + MongoDB): the activity store,    *)
(* the actor resolver, the feed endpoints and the review shapers.          *)
(*                                                                         *)
(* Python values are tagged records, so that isinstance() tests can be     *)
(* translated: [t |-> "oid", v |-> h] is ObjectId(h), [t |-> "str", ...]   *)
(* a str, [t |-> "none", ...] None, [t |-> "int", ...] any other scalar,   *)
(* and [t |-> "dict", d |-> f] a dict whose keys are DOMAIN f.  Documents  *)
(* are functions from the keys they hold, so a missing key is a key        *)
(* outside DOMAIN.                                                          *)
(***************************************************************************)
EXTENDS Integers, Sequences, FiniteSets, TLC

VARIABLES users, userActivities, movieReviews, bookReviews, clock, nextOid,
          recorded, call, resp

vars == <<users, userActivities, movieReviews, bookReviews, clock, nextOid,
          recorded, call, resp>>

(***************************************************************************)
(* Bounds                                                                  *)
(***************************************************************************)
\* most activity rows the main specification records
MaxActs == 2
\* most activity rows of one user in the default-limit specification
MaxBulk == 51

(***************************************************************************)
(* Python values                                                           *)
(***************************************************************************)
PyNone == [t |-> "none", v |-> ""]
PyStr(s) == [t |-> "str", v |-> s]
PyOid(h) == [t |-> "oid", v |-> h]
PyInt(s) == [t |-> "int", v |-> s]
PyDict(f) == [t |-> "dict", d |-> f]
\* a datetime, in milliseconds (the precision the store keeps)
PyDate(n) == [t |-> "datetime", ms |-> n]
\* the str that datetime.isoformat() gives for PyDate(n)
PyIso(n) == [t |-> "isostr", ms |-> n]
PyList(seq) == [t |-> "list", items |-> seq]
\* the pair (response, status) a view returns
PyTuple(status) == [t |-> "tuple", v |-> status]
\* an exception leaving a function
Raise(name) == [t |-> "raise", v |-> name]

\* the empty mapping {}
EmptyMap == [k \in {} |-> PyNone]

\* d.get(k) of a document or dict held as a function
Get(d, k) == IF k \in DOMAIN d THEN d[k] ELSE PyNone

\* bool(x) of a tagged value
Truthy(x) ==
  CASE x.t = "none" -> FALSE
    [] x.t = "str" -> x.v /= ""
    [] x.t = "dict" -> DOMAIN x.d /= {}
    [] x.t = "list" -> x.items /= <<>>
    [] OTHER -> TRUE

\* d.get(k) or [] for a key that holds a list
GetList(d, k) == IF k \in DOMAIN d THEN d[k] ELSE <<>>

(***************************************************************************)
(* Identifiers.  A 24-hex-digit string is written as a two-character name; *)
(* "A3" is an upper-case spelling of "a3", " a2 " is "a2" with blanks      *)
(* around it, "zz" is not hexadecimal, "b1".. are ids the store generates. *)
(***************************************************************************)
UserHex == {"a1", "a2", "a3"}
GhostHex == "a4"
ActHex == <<"b1", "b2", "b3", "b4">>
ActHexSet == {ActHex[i] : i \in 1..Len(ActHex)}
\* the ids of the reviews the store holds at the start ("c", "d") and of
\* the reviews it creates ("e"); "f9" is well formed and names no review
SeedReviewHex == {"c1", "c2", "c3", "d1", "d2", "d3"}
NewReviewHex == <<"e1", "e2", "e3", "e4">>
GhostReviewHex == "f9"
ReviewHexSet ==
  SeedReviewHex \cup {NewReviewHex[i] : i \in 1..Len(NewReviewHex)} \cup {GhostReviewHex}
HexIds == UserHex \cup {GhostHex} \cup ActHexSet \cup ReviewHexSet

\* str.strip()
Strip(s) ==
  CASE s = " a2 " -> "a2"
    [] s = " A3 " -> "A3"
    [] s = " " -> ""
    [] s = " Added book to Read " -> "Added book to Read"
    [] s = " d1 " -> "d1"
    [] s = " e1 " -> "e1"
    [] s = " 550 " -> "550"
    [] s = " Loved it " -> "Loved it"
    [] s = "  " -> ""
    [] s = " Movie " -> "Movie"
    [] OTHER -> s

\* str.lower() on the hexadecimal spellings and on the review kinds
Lower(s) ==
  CASE s = "A3" -> "a3"
    [] s = "D1" -> "d1"
    [] s = "E1" -> "e1"
    [] s = "Movie" -> "movie"
    [] OTHER -> s

\* bson.ObjectId.is_valid on a str
IsValidOid(s) == Lower(s) \in HexIds

\* bson.ObjectId(s): the id, spelled in lower case (callers test IsValidOid first:
\* the constructor raises InvalidId otherwise)
ObjectId(s) == PyOid(Lower(s))

\* str(x)
Str(x) == IF x.t = "none" THEN "None" ELSE x.v

(***************************************************************************)
(* The document store: find / sort / limit                                 *)
(***************************************************************************)
Min(a, b) == IF a < b THEN a ELSE b
Max(a, b) == IF a > b THEN a ELSE b

\* the order in which the store returns rows whose sort keys are equal is not
\* specified: "natural" keeps insertion order among them, "reverse" inverts it
TieOrders == {"natural", "reverse"}

\* collection.find({"userId": {"$in": ids}}): the rows in natural order
FindByUsers(coll, ids) ==
  SelectSeq(coll, LAMBDA row : \E i \in 1..Len(ids) : ids[i] = row["userId"])

\* the sort key of a row: a missing or null createdAt sorts below every date
\* (ISO strings of dates compare as the dates do)
SortKey(row) ==
  IF Get(row, "createdAt").t \in {"datetime", "isostr"} THEN row["createdAt"].ms
  ELSE -1

Reverse(seq) == [i \in 1..Len(seq) |-> seq[Len(seq) + 1 - i]]

\* the rows with the given key, in the order the store returns equal keys
KeyGroup(rows, key, tb) ==
  LET g == SelectSeq(rows, LAMBDA row : SortKey(row) = key)
  IN IF tb = "natural" THEN g ELSE Reverse(g)

RECURSIVE SortByKeys(_, _, _)
SortByKeys(rows, keys, tb) ==
  IF keys = {} THEN <<>>
  ELSE LET m == CHOOSE k \in keys : \A j \in keys : j <= k
       IN KeyGroup(rows, m, tb) \o SortByKeys(rows, keys \ {m}, tb)

\* a sort that returns the oldest row first
SortDesc_Ascending(rows, tb) ==
  Reverse(SortByKeys(rows, {SortKey(rows[i]) : i \in 1..Len(rows)}, tb))

\* cursor.sort("createdAt", -1)
SortDesc(rows, tb) ==
  SortByKeys(rows, {SortKey(rows[i]) : i \in 1..Len(rows)}, tb)

\* a limit that lets one row too many through
Limit_OneMore(rows, n) == SubSeq(rows, 1, Min(n + 1, Len(rows)))

\* cursor.limit(n), n >= 1
Limit(rows, n) == SubSeq(rows, 1, Min(n, Len(rows)))

(***************************************************************************)
(* users/service.py                                                        *)
(***************************************************************************)
\* the document add_activity inserts; oid is the id the store assigns
ActivityDoc(oid, user_id, activity, meta, now) ==
  [k \in {"_id", "userId", "activity", "meta", "createdAt"} |->
     CASE k = "_id" -> PyOid(oid)
       [] k = "userId" -> user_id
       [] k = "activity" -> PyStr(Str(activity))
       [] k = "meta" -> (IF meta.t = "dict" THEN meta ELSE PyNone)
       [] OTHER -> PyDate(now)]

\* a recorder that skips a row equal to a stored one
add_activity_Dedup(coll, oid, user_id, activity, meta, now) ==
  IF \E i \in 1..Len(coll) : /\ coll[i]["userId"] = user_id
                              /\ coll[i]["activity"] = PyStr(Str(activity))
                              /\ coll[i]["meta"].t = meta.t
     THEN coll
     ELSE Append(coll, ActivityDoc(oid, user_id, activity, meta, now))

\* add_activity: the collection after insert_one
add_activity(coll, oid, user_id, activity, meta, now) ==
  Append(coll, ActivityDoc(oid, user_id, activity, meta, now))

\* the loop of _build_user_lookup that keeps the distinct ObjectIds
RECURSIVE ValidOids(_, _, _)
ValidOids(ids, seen, valid) ==
  IF ids = <<>> THEN valid
  ELSE LET oid == Head(ids)
       IN IF oid.t /= "oid" THEN ValidOids(Tail(ids), seen, valid)
          ELSE IF Str(oid) \in seen THEN ValidOids(Tail(ids), seen, valid)
          ELSE ValidOids(Tail(ids), seen \cup {Str(oid)}, Append(valid, oid))

ActorOf(doc) ==
  [id |-> Str(doc["_id"]), username |-> Get(doc, "username"),
   name |-> Get(doc, "name"), avatarUrl |-> Get(doc, "avatarUrl")]

_build_user_lookup(db_users, ids) ==
  LET valid == ValidOids(ids, {}, <<>>)
      found == {h \in DOMAIN db_users :
                  \E i \in 1..Len(valid) : valid[i] = db_users[h]["_id"]}
  IN IF valid = <<>> THEN EmptyMap
     ELSE [key \in {Str(db_users[h]["_id"]) : h \in found} |-> ActorOf(db_users[key])]

\* one row of _serialize_activities
ShapeActivity(d, user_lookup) ==
  LET activity_id == Get(d, "_id")
      user_raw == Get(d, "userId")
      act_id_str == IF activity_id.t = "oid" THEN PyStr(Str(activity_id))
                    ELSE IF activity_id.t = "str" THEN activity_id
                    ELSE IF activity_id.t /= "none" THEN PyStr(Str(activity_id))
                    ELSE PyNone
      user_id_str == IF user_raw.t = "oid" THEN PyStr(Str(user_raw))
                     ELSE IF user_raw.t = "str" THEN user_raw
                     ELSE PyNone
      base == [k \in {"_id", "userId", "activity", "meta", "createdAt"} |->
                 CASE k = "_id" -> act_id_str
                   [] k = "userId" -> user_id_str
                   [] k = "activity" -> Get(d, "activity")
                   [] k = "meta" -> Get(d, "meta")
                   [] OTHER -> Get(d, "createdAt")]
      attach == /\ DOMAIN user_lookup /= {}
                /\ Truthy(user_id_str)
                /\ user_id_str.v \in DOMAIN user_lookup
  IN IF attach
     THEN [k \in DOMAIN base \cup {"user"} |->
             IF k = "user" THEN user_lookup[user_id_str.v] ELSE base[k]]
     ELSE base

\* a serializer that drops the rows whose actor did not resolve
_serialize_activities_DropsUnresolved(docs, user_lookup) ==
  SelectSeq([i \in 1..Len(docs) |-> ShapeActivity(docs[i], user_lookup)],
            LAMBDA shaped : "user" \in DOMAIN shaped)

_serialize_activities(docs, user_lookup) ==
  [i \in 1..Len(docs) |-> ShapeActivity(docs[i], user_lookup)]

\* an own feed that resolves no actor
get_user_activity_NoActors(db_users, coll, user_id, limit, tb) ==
  _serialize_activities(Limit(SortDesc(FindByUsers(coll, <<user_id>>), tb), limit),
                        EmptyMap)

get_user_activity(db_users, coll, user_id, limit, tb) ==
  LET docs == Limit(SortDesc(FindByUsers(coll, <<user_id>>), tb), limit)
      actors == _build_user_lookup(db_users, <<user_id>>)
  IN _serialize_activities(docs, actors)

get_user_activity_with_friends(db_users, coll, user_id, friend_ids, limit, tb) ==
  LET ids == <<user_id>> \o friend_ids
      docs == Limit(SortDesc(FindByUsers(coll, ids), tb), limit)
      actors == _build_user_lookup(db_users, ids)
  IN _serialize_activities(docs, actors)

(***************************************************************************)
(* users/routes.py                                                         *)
(***************************************************************************)
DefaultOwnLimit == 50
DefaultFriendsLimit == 100
MaxLimit == 500

\* request.args.get(name): a query parameter that was not sent
NoArg == "<absent>"

\* int(s): the strings of the model that are integers
IntStrings == {"0", "1", "2", "600"}
IntOf(s) == CASE s = "0" -> 0 [] s = "1" -> 1 [] s = "2" -> 2 [] OTHER -> 600

\* max(1, min(500, int(request.args.get("limit", default)))), default on error
ParseLimit(arg, default) ==
  IF arg = NoArg THEN Max(1, Min(MaxLimit, default))
  ELSE IF Strip(arg) \in IntStrings THEN Max(1, Min(MaxLimit, IntOf(Strip(arg))))
  ELSE default

Response(status, body) == [status |-> status, body |-> body]
ErrorBody(code) == [error |-> code]

\* a or b
Or(a, b) == IF Truthy(a) THEN a ELSE b

\* an _append_friend that takes every string for an identifier
_append_friend_KeepsMalformed(acc, candidate) ==
  IF candidate.t = "none" THEN acc
  ELSE LET target == IF candidate.t = "dict"
                     THEN Or(Or(Get(candidate.d, "_id"), Get(candidate.d, "id")),
                             Get(candidate.d, "userId"))
                     ELSE candidate
       IN IF target.t \notin {"oid", "str"} THEN acc
          ELSE LET friend_oid == IF target.t = "oid" THEN target
                                 ELSE ObjectId(Strip(target.v))
                   key == Str(friend_oid)
               IN IF key \in acc.seen THEN acc
                  ELSE [ids |-> Append(acc.ids, friend_oid),
                        seen |-> acc.seen \cup {key}]

\* _append_friend: acc is [ids, seen]
_append_friend(acc, candidate) ==
  IF candidate.t = "none" THEN acc
  ELSE LET target == IF candidate.t = "dict"
                     THEN Or(Or(Get(candidate.d, "_id"), Get(candidate.d, "id")),
                             Get(candidate.d, "userId"))
                     ELSE candidate
       IN IF target.t \notin {"oid", "str"} THEN acc
          ELSE IF target.t = "str" /\ ~IsValidOid(Strip(target.v)) THEN acc
          ELSE LET friend_oid == IF target.t = "oid" THEN target
                                 ELSE ObjectId(Strip(target.v))
                   key == Str(friend_oid)
               IN IF key \in acc.seen THEN acc
                  ELSE [ids |-> Append(acc.ids, friend_oid),
                        seen |-> acc.seen \cup {key}]

RECURSIVE AppendFriends(_, _)
AppendFriends(acc, entries) ==
  IF entries = <<>> THEN acc
  ELSE AppendFriends(_append_friend(acc, Head(entries)), Tail(entries))

\* the segments of friends_q.split(",") that are not blank, stripped
RECURSIVE QuerySegments(_)
QuerySegments(segs) ==
  IF segs = <<>> THEN <<>>
  ELSE IF Strip(Head(segs)) = "" THEN QuerySegments(Tail(segs))
  ELSE <<PyStr(Strip(Head(segs)))>> \o QuerySegments(Tail(segs))

\* bool(friends_q) of the stripped parameter, held as its comma-separated segments
FriendsGiven(segs) == Len(segs) > 1 \/ (Len(segs) = 1 /\ Strip(segs[1]) /= "")

\* a derivation that reads the legacy friends array only when nothing is followed
FriendIds_FallbackOnly(db_users, oid, segs) ==
  LET start == [ids |-> <<>>, seen |-> {}]
  IN IF FriendsGiven(segs) THEN AppendFriends(start, QuerySegments(segs)).ids
     ELSE LET u == db_users[Str(oid)]
              followed == AppendFriends(start, GetList(u, "following"))
          IN IF followed.ids /= <<>> THEN followed.ids
             ELSE AppendFriends(start, GetList(u, "friends")).ids

\* the friend_ids list_user_activity_with_friends builds
FriendIds(db_users, oid, segs) ==
  LET start == [ids |-> <<>>, seen |-> {}]
  IN IF FriendsGiven(segs) THEN AppendFriends(start, QuerySegments(segs)).ids
     ELSE LET u == db_users[Str(oid)]
          IN AppendFriends(AppendFriends(start, GetList(u, "following")),
                           GetList(u, "friends")).ids

\* GET /users/<userId>/activity
list_user_activity(db_users, coll, userId, limitArg, tb) ==
  IF ~IsValidOid(Strip(userId)) THEN Response(400, ErrorBody("invalid_user_id"))
  ELSE LET oid == ObjectId(Strip(userId))
           limit == ParseLimit(limitArg, DefaultOwnLimit)
           data == get_user_activity(db_users, coll, oid, limit, tb)
       IN Response(200, [ok |-> TRUE, count |-> Len(data), items |-> data])

\* GET /users/<userId>/activity/friends
list_user_activity_with_friends(db_users, coll, userId, segs, limitArg, tb) ==
  IF ~IsValidOid(Strip(userId)) THEN Response(400, ErrorBody("invalid_user_id"))
  ELSE LET oid == ObjectId(Strip(userId))
       IN IF ~FriendsGiven(segs) /\ Str(oid) \notin DOMAIN db_users
          THEN Response(404, ErrorBody("user_not_found"))
          ELSE LET friend_ids == FriendIds(db_users, oid, segs)
                   limit == ParseLimit(limitArg, DefaultFriendsLimit)
                   data == get_user_activity_with_friends(db_users, coll, oid,
                                                          friend_ids, limit, tb)
               IN Response(200, [ok |-> TRUE, userId |-> Str(oid),
                                 friendCount |-> Len(friend_ids),
                                 count |-> Len(data), items |-> data])

\* update_one({"_id": oid}, {"$push": {field: {"$each": [x], "$position": 0}}})
PushFront(db_users, h, field, x) ==
  IF h \notin DOMAIN db_users THEN db_users
  ELSE LET doc == db_users[h]
           newdoc == [k \in DOMAIN doc \cup {field} |->
                        IF k = field THEN <<x>> \o GetList(doc, field) ELSE doc[k]]
       IN [db_users EXCEPT ![h] = newdoc]

\* POST /users/<userId>/activity: the response and the store it leaves;
\* new_oid is the id insert_one assigns, now is datetime.utcnow()
add_user_activity(db_users, coll, userId, payload, new_oid, now) ==
  LET unchanged(r) == [resp |-> r, users |-> db_users, coll |-> coll, inserted |-> FALSE]
  IN IF ~IsValidOid(Strip(userId))
     THEN unchanged(Response(400, ErrorBody("invalid_user_id")))
     ELSE LET oid == ObjectId(Strip(userId))
              raw == Or(Get(payload, "activity"), PyStr(""))
              meta == IF Get(payload, "meta").t = "dict" THEN Get(payload, "meta")
                      ELSE PyNone
          IN IF Str(oid) \notin DOMAIN db_users
             THEN unchanged(Response(404, ErrorBody("user_not_found")))
             ELSE IF raw.t /= "str"
             THEN unchanged(Response(500, ErrorBody("server")))
             ELSE IF Strip(raw.v) = ""
             THEN unchanged(Response(400, ErrorBody("missing_activity")))
             ELSE LET coll2 == add_activity(coll, new_oid, oid, PyStr(Strip(raw.v)), meta, now)
                      users2 == PushFront(db_users, Str(oid), "activities", PyOid(new_oid))
                      count == Len(GetList(users2[Str(oid)], "activities"))
                  IN [resp |-> Response(201, [ok |-> TRUE, activityId |-> new_oid,
                                              userId |-> Str(oid),
                                              activitiesCount |-> count]),
                      users |-> users2, coll |-> coll2, inserted |-> TRUE]

(***************************************************************************)
(* Inputs                                                                  *)
(***************************************************************************)
\* the <userId> path segment: well formed (with blanks), unknown, malformed
UserIdStrings == {"a1", " a2 ", "a3", GhostHex, "zz"}

\* the <userId> path segment of the feed requests
FeedUserIds == {"a1", " a2 ", GhostHex, "zz"}

\* the ?limit= parameter
LimitArgs == {NoArg, "1", "0", "x"}

\* the ?friends= parameter, as its comma-separated segments (<<>>: not sent)
FriendsArgs ==
  { <<>>, <<" ">>, <<"", "">>, <<"zz", GhostHex>>,
    <<"a2", "zz", GhostHex, " A3 ">>, <<"a3", "a2", "A3">> }

MovieMeta == PyDict([k \in {"movieId", "rating"} |->
                       IF k = "movieId" THEN PyStr("550") ELSE PyInt("7")])

\* the JSON body of POST /users/<userId>/activity
Payloads ==
  { EmptyMap,
    [k \in {"activity", "meta"} |->
       IF k = "activity" THEN PyStr(" Added book to Read ") ELSE PyStr("x")],
    [k \in {"activity", "meta"} |->
       IF k = "activity" THEN PyStr("Reviewed movie") ELSE MovieMeta],
    [k \in {"activity"} |-> PyInt("7")] }

(***************************************************************************)
(* Stored users.  following holds what addFollowing writes (references     *)
(* built by build_user_reference) or the older shapes the feed still       *)
(* reads; friends is the legacy array.                                     *)
(***************************************************************************)
Usernames == [h \in UserHex \cup {GhostHex} |->
                CASE h = "a1" -> "alice" [] h = "a2" -> "bob"
                  [] h = "a3" -> "carol" [] OTHER -> "ghost"]

\* friends/routes.py build_user_reference
build_user_reference(h) ==
  PyDict([k \in {"_id", "username", "name"} |->
            CASE k = "_id" -> PyOid(h)
              [] k = "username" -> PyStr(Usernames[h])
              [] OTHER -> PyNone])

RefBy(key, val) == PyDict([k \in {key} |-> val])

SeedFollowing ==
  { <<build_user_reference("a3"), build_user_reference("a2")>>,
    <<PyOid("a2"), RefBy("id", PyStr("A3")), RefBy("userId", PyOid("a2")),
      PyStr("zz"), PyDict(EmptyMap), PyInt("7"), PyNone>>,
    <<PyStr(" a2 "),
      PyDict([k \in {"_id", "id"} |-> IF k = "_id" THEN PyStr("zz") ELSE PyOid("a3")])>>,
    <<build_user_reference(GhostHex)>> }

SeedFriends == { <<PyOid("a3")>>, <<PyStr("a2"), PyOid("a1")>> }

UserDoc(h, extra) ==
  [k \in {"_id", "username"} \cup DOMAIN extra |->
     CASE k = "_id" -> PyOid(h)
       [] k = "username" -> PyStr(Usernames[h])
       [] OTHER -> extra[k]]

\* the lists user a1 starts with: none, following only, or both
SeedExtras ==
  {EmptyMap}
  \cup {[k \in {"following"} |-> f] : f \in SeedFollowing}
  \cup {[k \in {"following", "friends"} |-> IF k = "following" THEN f ELSE g] :
          f \in {<<build_user_reference("a2")>>}, g \in SeedFriends}

NoCall == [op |-> "none"]
NoResp == Response(0, ErrorBody("none"))

Init ==
  /\ \E extra \in SeedExtras :
       users = [h \in UserHex |-> UserDoc(h, IF h = "a1" THEN extra ELSE EmptyMap)]
  /\ userActivities = <<>>
  /\ movieReviews = <<>>
  /\ bookReviews = <<>>
  /\ clock = 0
  /\ nextOid = 1
  /\ recorded = 0
  /\ call = NoCall
  /\ resp = NoResp

(***************************************************************************)
(* Requests                                                                *)
(***************************************************************************)
\* the server is between requests
Idle == call = NoCall

AddUserActivity ==
  \E userId \in UserIdStrings, payload \in Payloads, now \in {clock, clock + 1} :
    /\ Idle
    /\ nextOid <= MaxActs
    /\ LET r == add_user_activity(users, userActivities, userId, payload,
                                  ActHex[nextOid], now)
       IN /\ r.inserted \/ now = clock
          /\ users' = r.users
          /\ userActivities' = r.coll
          /\ clock' = now
          /\ nextOid' = IF r.inserted THEN nextOid + 1 ELSE nextOid
          /\ recorded' = IF r.resp.status = 201 THEN recorded + 1 ELSE recorded
          /\ call' = [op |-> "add_user_activity", userId |-> userId, payload |-> payload]
          /\ resp' = r.resp
    /\ UNCHANGED <<movieReviews, bookReviews>>

ListUserActivity ==
  \E userId \in FeedUserIds, limitArg \in LimitArgs, tb \in TieOrders :
    /\ Idle
    /\ call' = [op |-> "list_user_activity", userId |-> userId, limit |-> limitArg]
    /\ resp' = list_user_activity(users, userActivities, userId, limitArg, tb)
    /\ UNCHANGED <<users, userActivities, movieReviews, bookReviews, clock,
                   nextOid, recorded>>

ListUserActivityWithFriends ==
  \E userId \in FeedUserIds, segs \in FriendsArgs, limitArg \in LimitArgs,
     tb \in TieOrders :
    /\ Idle
    /\ call' = [op |-> "list_user_activity_with_friends", userId |-> userId,
                friends |-> segs, limit |-> limitArg]
    /\ resp' = list_user_activity_with_friends(users, userActivities, userId,
                                               segs, limitArg, tb)
    /\ UNCHANGED <<users, userActivities, movieReviews, bookReviews, clock,
                   nextOid, recorded>>

\* the response is sent and the request context ends
Respond ==
  /\ ~Idle
  /\ call' = NoCall
  /\ resp' = NoResp
  /\ UNCHANGED <<users, userActivities, movieReviews, bookReviews, clock,
                 nextOid, recorded>>

Next ==
  \/ AddUserActivity
  \/ ListUserActivity
  \/ ListUserActivityWithFriends
  \/ Respond

Spec == Init /\ [][Next]_vars

(***************************************************************************)
(* Properties of the feed                                                  *)
(***************************************************************************)
RECURSIVE SetToSeq(_)
SetToSeq(S) ==
  IF S = {} THEN <<>>
  ELSE LET x == CHOOSE y \in S : TRUE IN <<x>> \o SetToSeq(S \ {x})

Range(f) == {f[i] : i \in DOMAIN f}

NetworkFeedOk ==
  call.op = "list_user_activity_with_friends" /\ resp.status = 200

CallOid == ObjectId(Strip(call.userId))
CallFriendIds == FriendIds(users, CallOid, call.friends)
CallActors == {CallOid} \cup Range(CallFriendIds)
CallLimit ==
  ParseLimit(call.limit, IF call.op = "list_user_activity" THEN DefaultOwnLimit
                         ELSE DefaultFriendsLimit)
Items == resp.body.items

\* the stored rows of the actors of the request
ActorRows == {i \in 1..Len(userActivities) : userActivities[i]["userId"] \in CallActors}
\* the stored rows the response returns
ReturnedRows ==
  {i \in 1..Len(userActivities) :
     \E j \in 1..Len(Items) : Items[j]["_id"].v = Str(userActivities[i]["_id"])}

\* C1: the network feed returns at most n rows, all of actors in {u} \cup F,
\* newest first, and they are the n most recent rows over the whole actor set:
\* every row of the set is returned when there are at most n, and no omitted
\* row of the set is newer than a returned one.
C1_GlobalCap ==
  NetworkFeedOk =>
    /\ Len(Items) <= CallLimit
    /\ Len(Items) = Min(CallLimit, Cardinality(ActorRows))
    /\ Cardinality(ReturnedRows) = Len(Items)
    /\ ReturnedRows \subseteq ActorRows
    /\ \A j \in 1..Len(Items) : Items[j]["userId"].v \in {Str(a) : a \in CallActors}
    /\ \A j \in 1..Len(Items) : \A k \in 1..Len(Items) :
         j < k => Items[j]["createdAt"].ms >= Items[k]["createdAt"].ms
    /\ \A i \in ActorRows \ ReturnedRows : \A j \in 1..Len(Items) :
         userActivities[i]["createdAt"].ms <= Items[j]["createdAt"].ms

\* a row of one actor is left out while a row of another actor is returned
C1_Witness ==
  /\ NetworkFeedOk
  /\ \E i \in ActorRows \ ReturnedRows : \E j \in 1..Len(Items) :
       /\ Items[j]["userId"].v /= Str(userActivities[i]["userId"])
       /\ userActivities[i]["createdAt"].ms < Items[j]["createdAt"].ms

\* the stored following list of a1 holds both a2 and a3 (in either order)
FollowsBoth ==
  LET f == GetList(users["a1"], "following")
  IN /\ \E i \in 1..Len(f) : f[i] = build_user_reference("a2")
     /\ \E i \in 1..Len(f) : f[i] = build_user_reference("a3")

\* B recorded one activity, C a later one, and there is no other row
Scenario(B, C) ==
  /\ FollowsBoth
  /\ Len(userActivities) = 2
  /\ userActivities[1]["userId"] = PyOid(B)
  /\ userActivities[2]["userId"] = PyOid(C)
  /\ userActivities[1]["createdAt"].ms < userActivities[2]["createdAt"].ms

FeedOfA ==
  /\ NetworkFeedOk
  /\ Strip(call.userId) = "a1"
  /\ call.friends = <<>>
  /\ CallLimit >= 2

\* C2: A follows B and C, B recorded at t1 and C at t2 > t1, A recorded
\* nothing: the network feed of A (no friends parameter) is exactly
\* [C's entry, B's entry], each with its own author's username.
C2_Scenario ==
  \A B \in {"a2", "a3"}, C \in {"a2", "a3"} :
    (B /= C /\ FeedOfA /\ Scenario(B, C)) =>
      /\ Len(Items) = 2
      /\ Items[1]["_id"].v = Str(userActivities[2]["_id"])
      /\ Items[2]["_id"].v = Str(userActivities[1]["_id"])
      /\ Items[1]["userId"].v = C
      /\ Items[2]["userId"].v = B
      /\ "user" \in DOMAIN Items[1] /\ Items[1]["user"].username = PyStr(Usernames[C])
      /\ "user" \in DOMAIN Items[2] /\ Items[2]["user"].username = PyStr(Usernames[B])

C2_Witness ==
  /\ FeedOfA
  /\ Scenario("a2", "a3")
  /\ Len(Items) = 2

\* the identifier an entry of a friend list stands for, if any: a plain id, or
\* the first non-empty value among the keys _id, id, userId of a reference
PlainId(x) ==
  IF x.t = "oid" THEN {x.v}
  ELSE IF x.t = "str" /\ IsValidOid(Strip(x.v)) THEN {Lower(Strip(x.v))}
  ELSE {}

ResolvedId(entry) ==
  IF entry.t = "dict"
  THEN LET keys == <<"_id", "id", "userId">>
           present == {i \in 1..3 : Truthy(Get(entry.d, keys[i]))}
       IN IF present = {} THEN {}
          ELSE PlainId(entry.d[keys[CHOOSE i \in present : \A j \in present : i <= j]])
  ELSE PlainId(entry)

ResolvedIds(entries) == UNION {ResolvedId(entries[i]) : i \in 1..Len(entries)}

\* the feed the service gives for the primary user and a set of friend ids
FeedOver(friendHex, tb) ==
  get_user_activity_with_friends(users, userActivities, CallOid,
                                 SetToSeq({PyOid(h) : h \in friendHex}), CallLimit, tb)

SuppliedIds == ResolvedIds([i \in 1..Len(call.friends) |-> PyStr(call.friends[i])])

MixedFriendList ==
  /\ call.op = "list_user_activity_with_friends"
  /\ IsValidOid(Strip(call.userId))
  /\ \E i \in 1..Len(call.friends) : ~IsValidOid(Strip(call.friends[i]))
                                     /\ Strip(call.friends[i]) /= ""
  /\ \E i \in 1..Len(call.friends) : /\ IsValidOid(Strip(call.friends[i]))
                                     /\ Lower(Strip(call.friends[i])) \notin DOMAIN users

\* C4: a supplied friend list with a malformed id and a well-formed id of no
\* user gives a success; the malformed entry is not an actor, the unknown id
\* brings no row, and the items are the feed over the primary user and the
\* valid existing friends.
C4_BadFriendsSkipped ==
  MixedFriendList =>
    /\ resp.status = 200
    /\ resp.body.friendCount = Cardinality(SuppliedIds)
    /\ \A a \in CallActors : IsValidOid(a.v)
    /\ \A j \in 1..Len(Items) : Items[j]["userId"].v \in DOMAIN users \cup {CallOid.v}
    /\ \E tb \in TieOrders : Items = FeedOver(SuppliedIds \cap DOMAIN users, tb)

C4_Witness ==
  /\ MixedFriendList
  /\ resp.status = 200
  /\ \E j \in 1..Len(Items) : Items[j]["userId"].v /= CallOid.v

DerivedFeed ==
  /\ NetworkFeedOk
  /\ ~FriendsGiven(call.friends)

FollowingIds == ResolvedIds(GetList(users[CallOid.v], "following"))
LegacyFriendIds == ResolvedIds(GetList(users[CallOid.v], "friends"))

\* C5 as stated: without a friends parameter the actors are the user and the
\* ids resolved from the stored following entries only.
C5_FollowingOnly ==
  DerivedFeed =>
    /\ resp.body.friendCount = Cardinality(FollowingIds)
    /\ \E tb \in TieOrders : Items = FeedOver(FollowingIds, tb)

\* C5 (amended): without a friends parameter the actors are the user and the
\* distinct ids resolved from the stored following entries and from the
\* legacy friends entries; plain ids and references keyed by _id, id or userId
\* resolve alike, repeated ids count once, unresolvable entries are skipped.
C5_FollowingAndFriends ==
  DerivedFeed =>
    /\ resp.body.friendCount = Cardinality(FollowingIds \cup LegacyFriendIds)
    /\ Range(CallFriendIds) = {PyOid(h) : h \in FollowingIds \cup LegacyFriendIds}
    /\ \E tb \in TieOrders : Items = FeedOver(FollowingIds \cup LegacyFriendIds, tb)

\* a following list with a plain id, references, a repeated id and entries
\* that do not resolve, and a returned row of a followed user
C5_Witness ==
  /\ DerivedFeed
  /\ LET f == GetList(users[CallOid.v], "following")
     IN /\ \E i \in 1..Len(f) : f[i].t = "oid"
        /\ \E i \in 1..Len(f) : f[i].t = "dict" /\ ResolvedId(f[i]) /= {}
        /\ \E i \in 1..Len(f) : ResolvedId(f[i]) = {}
        /\ Len(f) > Cardinality(FollowingIds) + Cardinality({i \in 1..Len(f) : ResolvedId(f[i]) = {}})
  /\ \E j \in 1..Len(Items) : Items[j]["userId"].v /= CallOid.v

\* C7: recording is append-only and not deduplicated: after k successful
\* record calls the store holds k rows, all with distinct identifiers.
C7_AppendOnly ==
  /\ Len(userActivities) = recorded
  /\ \A i \in 1..Len(userActivities) : \A j \in 1..Len(userActivities) :
       i /= j => userActivities[i]["_id"] /= userActivities[j]["_id"]

\* two record calls with identical arguments left two rows
C7_Witness ==
  \E i \in 1..Len(userActivities) : \E j \in 1..Len(userActivities) :
    /\ i < j
    /\ userActivities[i]["userId"] = userActivities[j]["userId"]
    /\ userActivities[i]["activity"] = userActivities[j]["activity"]
    /\ userActivities[i]["meta"] = userActivities[j]["meta"]
    /\ userActivities[i]["_id"] /= userActivities[j]["_id"]

FeedCall == call.op \in {"list_user_activity", "list_user_activity_with_friends"}

\* C8: for each feed endpoint a malformed user id is a 400, a well-formed id
\* of no user is a 404, and an existing user without activity is a 200 with
\* no items.
C8_ThreeOutcomes ==
  FeedCall =>
    /\ ~IsValidOid(Strip(call.userId)) => resp.status = 400
    /\ (IsValidOid(Strip(call.userId)) /\ CallOid.v \notin DOMAIN users) =>
         resp.status = 404
    /\ (IsValidOid(Strip(call.userId)) /\ CallOid.v \in DOMAIN users
        /\ userActivities = <<>>) =>
         (resp.status = 200 /\ resp.body.items = <<>>)

(***************************************************************************)
(* The two feeds of users/service.py on larger stores, with the limits the *)
(* callers leave out (limit=50 and limit=100 in the signatures)            *)
(***************************************************************************)
\* row i of a bulk store (its id is the numeral of i): every third row is of
\* a2 when mixed, the rest of a1; with ties two consecutive rows share a
\* createdAt
BulkRow(i, mixed, ties) ==
  ActivityDoc(ToString(i), PyOid(IF mixed /\ i % 3 = 0 THEN "a2" ELSE "a1"),
              PyStr("Reviewed movie"), PyNone, IF ties THEN (i + 1) \div 2 ELSE i)

BulkStore(k, mixed, ties) == [i \in 1..k |-> BulkRow(i, mixed, ties)]

InitFeeds ==
  /\ users = [h \in UserHex |-> UserDoc(h, EmptyMap)]
  /\ \E k \in 0..MaxBulk, mixed \in BOOLEAN, ties \in BOOLEAN :
       userActivities = BulkStore(k, mixed, ties)
  /\ movieReviews = <<>>
  /\ bookReviews = <<>>
  /\ clock = 0
  /\ nextOid = 1
  /\ recorded = 0
  /\ call = NoCall
  /\ resp = NoResp

\* limit: 0 stands for an omitted argument (the default of the signature)
OwnLimitOf(n) == IF n = 0 THEN DefaultOwnLimit ELSE n
FriendsLimitOf(n) == IF n = 0 THEN DefaultFriendsLimit ELSE n

\* get_user_activity(u, n) and get_user_activity_with_friends(u, [], n)
CallBothFeeds ==
  \E h \in {"a1", "a2", GhostHex}, n \in {0, 1, DefaultOwnLimit},
     tbOwn \in TieOrders, tbNet \in TieOrders :
    /\ Idle
    /\ call' = [op |-> "feeds", user |-> h, limit |-> n, tbOwn |-> tbOwn, tbNet |-> tbNet]
    /\ resp' = [own |-> get_user_activity(users, userActivities, PyOid(h),
                                          OwnLimitOf(n), tbOwn),
                network |-> get_user_activity_with_friends(users, userActivities,
                               PyOid(h), <<>>, FriendsLimitOf(n), tbNet)]
    /\ UNCHANGED <<users, userActivities, movieReviews, bookReviews, clock,
                   nextOid, recorded>>

NextFeeds ==
  \/ CallBothFeeds
  \/ Respond

SpecFeeds == InitFeeds /\ [][NextFeeds]_vars

\* C3 as stated: the own feed of u equals the network feed of u with an empty
\* friend list, both called without a limit.
C3_DefaultsEquivalent ==
  (call.op = "feeds" /\ call.limit = 0 /\ call.tbOwn = call.tbNet) =>
    resp.own = resp.network

\* C3 (amended): for one and the same limit n, and the store returning rows of
\* equal createdAt in the same order to both queries, get_user_activity(u, n)
\* equals get_user_activity_with_friends(u, [], n): same rows, same order,
\* same actor metadata.
C3_SameLimitEquivalent ==
  (call.op = "feeds" /\ call.limit /= 0 /\ call.tbOwn = call.tbNet) =>
    resp.own = resp.network

\* both feeds were cut at the same limit and returned rows with an actor
C3_Witness ==
  /\ call.op = "feeds" /\ call.limit = DefaultOwnLimit /\ call.tbOwn = call.tbNet
  /\ Len(resp.own) = DefaultOwnLimit
  /\ Len(userActivities) > DefaultOwnLimit
  /\ resp.own = resp.network
  /\ "user" \in DOMAIN resp.own[1]

(***************************************************************************)
(* The actor resolver and the serializer of users/service.py as functions  *)
(* of their arguments                                                      *)
(***************************************************************************)
\* rows handed to _serialize_activities: of a1, of a user that is not stored,
\* with the user id kept as a string, and without a user id
DocPool ==
  { ActivityDoc("b1", PyOid("a1"), PyStr("Reviewed movie"), MovieMeta, 1),
    ActivityDoc("b2", PyOid(GhostHex), PyStr("Added book to Read"), PyNone, 2),
    ActivityDoc("b3", PyStr("a2"), PyStr("Reviewed movie"), PyNone, 2),
    ActivityDoc("b4", PyNone, PyStr("Reviewed movie"), PyNone, 3) }

DocLists ==
  {<<>>} \cup {<<d>> : d \in DocPool}
         \cup {p \in DocPool \X DocPool : p[1] /= p[2]}

\* the ids handed to _build_user_lookup
IdLists ==
  { <<>>, <<PyOid("a1")>>, <<PyOid(GhostHex)>>,
    <<PyOid("a1"), PyOid("a1"), PyOid("a2")>>,
    <<PyStr("a1"), PyOid("a3")>>,
    <<PyOid("a2"), PyOid(GhostHex), PyOid("a1")>> }

Profile(h) ==
  IF h = "a2"
  THEN [k \in {"name", "avatarUrl"} |->
          IF k = "name" THEN PyStr("Bob B") ELSE PyStr("https://img/bob.png")]
  ELSE EmptyMap

InitResolver ==
  /\ \E S \in SUBSET UserHex : users = [h \in S |-> UserDoc(h, Profile(h))]
  /\ userActivities \in DocLists
  /\ movieReviews = <<>>
  /\ bookReviews = <<>>
  /\ clock = 0
  /\ nextOid = 1
  /\ recorded = 0
  /\ call = NoCall
  /\ resp = NoResp

CallBuildUserLookup ==
  \E ids \in IdLists :
    /\ Idle
    /\ call' = [op |-> "_build_user_lookup", ids |-> ids]
    /\ resp' = _build_user_lookup(users, ids)
    /\ UNCHANGED <<users, userActivities, movieReviews, bookReviews, clock,
                   nextOid, recorded>>

CallSerializeActivities ==
  \E ids \in IdLists :
    /\ Idle
    /\ call' = [op |-> "_serialize_activities", ids |-> ids]
    /\ resp' = _serialize_activities(userActivities, _build_user_lookup(users, ids))
    /\ UNCHANGED <<users, userActivities, movieReviews, bookReviews, clock,
                   nextOid, recorded>>

NextResolver ==
  \/ CallBuildUserLookup
  \/ CallSerializeActivities
  \/ Respond

SpecResolver == InitResolver /\ [][NextResolver]_vars

\* the stored users among the ObjectIds of the call
KnownIds == {h \in DOMAIN users : \E i \in 1..Len(call.ids) : call.ids[i] = PyOid(h)}

\* C6: _build_user_lookup returns one entry for each distinct input id that
\* is a stored user and none for the others (so an empty mapping for an empty
\* list or unknown ids); _serialize_activities returns every row, with actor
\* metadata exactly when the row's actor is in the mapping.
C6_ResolverTolerant ==
  /\ call.op = "_build_user_lookup" =>
       /\ DOMAIN resp = KnownIds
       /\ (call.ids = <<>> => resp = EmptyMap)
       /\ \A h \in DOMAIN resp :
            /\ resp[h].id = h
            /\ resp[h].username = Get(users[h], "username")
            /\ resp[h].name = Get(users[h], "name")
            /\ resp[h].avatarUrl = Get(users[h], "avatarUrl")
  /\ call.op = "_serialize_activities" =>
       /\ Len(resp) = Len(userActivities)
       /\ \A i \in 1..Len(resp) :
            LET row == userActivities[i]
                resolvable == /\ row["userId"].t \in {"oid", "str"}
                              /\ row["userId"].v \in KnownIds
            IN /\ resp[i]["_id"] = PyStr(row["_id"].v)
               /\ resp[i]["activity"] = row["activity"]
               /\ resp[i]["meta"] = row["meta"]
               /\ resp[i]["createdAt"] = row["createdAt"]
               /\ ("user" \in DOMAIN resp[i]) <=> resolvable
               /\ resolvable => resp[i]["user"].id = row["userId"].v

\* a row of an unknown actor is returned without actor next to a resolved one
C6_Witness ==
  /\ call.op = "_serialize_activities"
  /\ \E i \in 1..Len(resp) : /\ userActivities[i]["userId"] = PyOid(GhostHex)
                             /\ "user" \notin DOMAIN resp[i]
  /\ \E i \in 1..Len(resp) : "user" \in DOMAIN resp[i]

(***************************************************************************)
(* tmdb/routes.py: the movie catalog                                       *)
(***************************************************************************)
TMDB_IMG == "https://image.tmdb.org/t/p" \o "/" \o "w342"

_poster_url(path) == IF Truthy(path) THEN PyStr(TMDB_IMG \o path.v) ELSE PyNone

\* s[:4] of a release date
First4(s) == IF s = "1999-10-15" THEN "1999" ELSE s

_normalize_movie(r) ==
  PyDict([k \in {"id", "title", "year", "overview", "posterUrl", "release_date"} |->
     CASE k = "id" -> Get(r, "id")
       [] k = "title" -> Or(Or(Get(r, "title"), Get(r, "original_title")), PyStr(""))
       [] k = "year" -> PyStr(First4(Or(Get(r, "release_date"), PyStr("")).v))
       [] k = "overview" -> Or(Get(r, "overview"), PyStr(""))
       [] k = "posterUrl" -> _poster_url(Get(r, "poster_path"))
       [] OTHER -> Or(Get(r, "release_date"), PyNone)])

\* the JSON the catalog holds for a movie id
TmdbMovie(movie_id) ==
  [k \in {"id", "title", "release_date", "poster_path"} |->
     CASE k = "id" -> movie_id
       [] k = "title" -> PyStr("Fight Club")
       [] k = "release_date" -> PyStr("1999-10-15")
       [] OTHER -> PyStr("/p.jpg")]

\* what one lookup does: the key is not set, requests.get or r.json() raises,
\* the answer is not ok, or it is ok with or without content
MovieOutcomes == {"no_key", "raise", "not_ok", "ok", "ok_empty"}

_fetch_movie_simple(movie_id, outcome) ==
  CASE outcome = "no_key" -> PyNone
    [] outcome = "raise" -> Raise("RequestException")
    [] outcome = "not_ok" -> PyNone
    [] outcome = "ok" -> _normalize_movie(TmdbMovie(movie_id))
    [] OTHER -> _normalize_movie(EmptyMap)

(***************************************************************************)
(* library/routes.py: the book catalog and the review shapers              *)
(***************************************************************************)
\* the Works JSON of a book: its authors are references without a name
WorksJson ==
  [k \in {"title", "authors", "covers"} |->
     CASE k = "title" -> PyStr("Dune")
       [] k = "authors" ->
            PyList(<<PyDict([a \in {"author"} |->
                       PyDict([b \in {"key"} |-> PyStr("/authors/OL1A")])])>>)
       [] OTHER -> PyList(<<PyInt("42")>>)]

\* a catalog answer that carries author names
NamedJson ==
  [k \in {"title", "authors", "first_publish_year", "coverUrl"} |->
     CASE k = "title" -> PyStr("Dune")
       [] k = "authors" -> PyList(<<PyDict([a \in {"name"} |-> PyStr("Frank Herbert")]),
                                    PyDict([a \in {"name"} |-> PyStr("B. Herbert")])>>)
       [] k = "first_publish_year" -> PyInt("1965")
       [] OTHER -> PyStr("https://covers/1-M.jpg")]

\* what one lookup does: requests.get, raise_for_status or json() raises,
\* the status is a success other than 200, or it is 200
BookOutcomes == {"error", "no_content", "ok", "ok_named"}

get_book_by_id(id, outcome) ==
  CASE outcome = "error" -> PyTuple("500")
    [] outcome = "no_content" -> PyNone
    [] outcome = "ok" -> PyDict(WorksJson)
    [] OTHER -> PyDict(NamedJson)

_coerce_iso(dt) ==
  IF dt.t = "datetime" THEN PyIso(dt.ms)
  ELSE IF dt.t = "none" THEN dt
  ELSE PyStr(Str(dt))

\* (meta or {}).get(k)
MetaGet(meta, k) == IF Truthy(meta) THEN Get(meta.d, k) ELSE PyNone

\* a shaper that gives up the whole review when the catalog lookup fails
_shape_movie_review_LosesReview(review, outcome) ==
  LET fetched == _fetch_movie_simple(Get(review, "movieId"), outcome)
  IN IF fetched.t \in {"raise", "none"}
     THEN PyDict([k \in {"id", "kind", "itemId"} |->
            CASE k = "id" -> PyStr(Str(Get(review, "_id")))
              [] k = "kind" -> PyStr("movie")
              [] OTHER -> Get(review, "movieId")])
     ELSE PyDict([k \in {"id", "kind", "itemId", "itemTitle", "itemPoster", "itemYear",
                         "rating", "title", "body", "createdAt", "updatedAt"} |->
       CASE k = "id" -> PyStr(Str(Get(review, "_id")))
         [] k = "kind" -> PyStr("movie")
         [] k = "itemId" -> Get(review, "movieId")
         [] k = "itemTitle" -> MetaGet(fetched, "title")
         [] k = "itemPoster" -> MetaGet(fetched, "posterUrl")
         [] k = "itemYear" -> MetaGet(fetched, "year")
         [] k = "createdAt" -> _coerce_iso(Get(review, "createdAt"))
         [] k = "updatedAt" -> _coerce_iso(Get(review, "updatedAt"))
         [] OTHER -> Get(review, k)])

_shape_movie_review(review, outcome) ==
  LET rid == Str(Get(review, "_id"))
      movie_id == Get(review, "movieId")
      fetched == _fetch_movie_simple(movie_id, outcome)
      meta == IF fetched.t = "raise" THEN PyNone ELSE fetched
  IN PyDict([k \in {"id", "kind", "itemId", "itemTitle", "itemPoster", "itemYear",
                    "rating", "title", "body", "createdAt", "updatedAt"} |->
       CASE k = "id" -> PyStr(rid)
         [] k = "kind" -> PyStr("movie")
         [] k = "itemId" -> movie_id
         [] k = "itemTitle" -> MetaGet(meta, "title")
         [] k = "itemPoster" -> MetaGet(meta, "posterUrl")
         [] k = "itemYear" -> MetaGet(meta, "year")
         [] k = "createdAt" -> _coerce_iso(Get(review, "createdAt"))
         [] k = "updatedAt" -> _coerce_iso(Get(review, "updatedAt"))
         [] OTHER -> Get(review, k)])

\* ", ".join(names)
RECURSIVE Join(_)
Join(names) ==
  IF names = <<>> THEN ""
  ELSE IF Len(names) = 1 THEN names[1].v
  ELSE names[1].v \o ", " \o Join(Tail(names))

\* the author name _shape_book_review derives from a catalog answer
AuthorName(meta) ==
  IF meta.t /= "dict" THEN PyNone
  ELSE LET authors == Get(meta.d, "authors")
           alt == Get(meta.d, "author_name")
           first ==
             IF authors.t /= "list" THEN PyNone
             ELSE IF \E i \in 1..Len(authors.items) : authors.items[i].t /= "dict"
             THEN PyNone
             ELSE PyStr(Join(SelectSeq(
                    [i \in 1..Len(authors.items) |-> Get(authors.items[i].d, "name")],
                    LAMBDA n : Truthy(n))))
       IN IF ~Truthy(first) /\ alt.t = "list"
          THEN PyStr(Join(SelectSeq(alt.items, LAMBDA n : Truthy(n))))
          ELSE first

\* the shaped review, or the AttributeError of (meta or {}).get on the
\* (response, status) pair that get_book_by_id returns when the lookup failed
_shape_book_review(review, outcome) ==
  LET rid == Str(Get(review, "_id"))
      book_id == Get(review, "bookId")
      meta == get_book_by_id(book_id, outcome)
      author_name == AuthorName(meta)
  IN IF meta.t = "tuple" THEN Raise("AttributeError")
     ELSE PyDict([k \in {"id", "kind", "itemId", "itemTitle", "itemAuthor", "itemYear",
                         "itemCover", "rating", "title", "body", "createdAt",
                         "updatedAt"} |->
       CASE k = "id" -> PyStr(rid)
         [] k = "kind" -> PyStr("book")
         [] k = "itemId" -> book_id
         [] k = "itemTitle" -> MetaGet(meta, "title")
         [] k = "itemAuthor" -> author_name
         [] k = "itemYear" -> MetaGet(meta, "first_publish_year")
         [] k = "itemCover" -> MetaGet(meta, "coverUrl")
         [] k = "createdAt" -> _coerce_iso(Get(review, "createdAt"))
         [] k = "updatedAt" -> _coerce_iso(Get(review, "updatedAt"))
         [] OTHER -> Get(review, k)])

\* items.sort(key=lambda r: r.get("createdAt") or "", reverse=True): stable
SortReviews(items) ==
  LET ds == [i \in 1..Len(items) |-> items[i].d]
      sorted == SortByKeys(ds, {SortKey(ds[i]) : i \in 1..Len(ds)}, "natural")
  IN [i \in 1..Len(sorted) |-> PyDict(sorted[i])]

\* errors.py: the handler of an exception that leaves a view
unhandled == Response(500, ErrorBody("internal_error"))

\* GET /reviews/user/<user_id>; mo and bo give the outcome of the catalog
\* lookup of each movie and book review of the user
list_reviews(movies, books, user_id, mo, bo, tb) ==
  IF ~IsValidOid(Strip(user_id)) THEN Response(400, ErrorBody("invalid_user_id"))
  ELSE LET oid == ObjectId(Strip(user_id))
           movie_reviews == SortDesc(FindByUsers(movies, <<oid>>), tb)
           book_reviews == SortDesc(FindByUsers(books, <<oid>>), tb)
           shapedM == [i \in 1..Len(movie_reviews) |->
                         _shape_movie_review(movie_reviews[i], mo[i])]
           shapedB == [i \in 1..Len(book_reviews) |->
                         _shape_book_review(book_reviews[i], bo[i])]
           items == SelectSeq(shapedM, LAMBDA x : Truthy(x))
                    \o SelectSeq(shapedB, LAMBDA x : Truthy(x))
       IN IF \E i \in 1..Len(shapedB) : shapedB[i].t = "raise" THEN unhandled
          ELSE Response(200, [ok |-> TRUE, userId |-> user_id, count |-> Len(items),
                              items |-> SortReviews(items)])

(***************************************************************************)
(* The review shapers and the review listing on stored reviews             *)
(***************************************************************************)
\* a stored review; created < 0: a document without createdAt and updatedAt
ReviewDoc(rid, user, itemKey, itemId, rating, title, body, created) ==
  [k \in {"_id", "userId", itemKey, "rating", "title", "body"}
         \cup (IF created < 0 THEN {} ELSE {"createdAt", "updatedAt"}) |->
     CASE k = "_id" -> PyOid(rid)
       [] k = "userId" -> PyOid(user)
       [] k = itemKey -> itemId
       [] k = "rating" -> PyInt(rating)
       [] k = "title" -> title
       [] k = "body" -> PyStr(body)
       [] k = "createdAt" -> PyDate(created)
       [] OTHER -> PyDate(created + 1)]

MoviePool ==
  << ReviewDoc("c1", "a1", "movieId", PyInt("550"), "7", PyStr("Great"), "Loved it", 2),
     ReviewDoc("c2", "a1", "movieId", PyInt("551"), "10", PyNone, "ok", -1),
     ReviewDoc("c3", "a2", "movieId", PyInt("550"), "1", PyStr("Bad"), "no", 1) >>

BookPool ==
  << ReviewDoc("d1", "a1", "bookId", PyStr("OL1W"), "9", PyStr("Classic"), "Read it", 3),
     ReviewDoc("d2", "a1", "bookId", PyStr("OL2W"), "4", PyNone, "meh", 2),
     ReviewDoc("d3", "a2", "bookId", PyStr("OL1W"), "10", PyStr("Yes"), "yes", -1) >>

\* the reviews of the pool picked by mask, in the order of the pool
Pick(pool, mask) ==
  LET F[i \in 0..Len(pool)] ==
        IF i = 0 THEN <<>>
        ELSE IF i \in mask THEN Append(F[i - 1], pool[i]) ELSE F[i - 1]
  IN F[Len(pool)]

InitReviews ==
  /\ users = [h \in UserHex |-> UserDoc(h, EmptyMap)]
  /\ userActivities = <<>>
  /\ \E mask \in SUBSET (1..Len(MoviePool)) : movieReviews = Pick(MoviePool, mask)
  /\ \E mask \in SUBSET (1..Len(BookPool)) : bookReviews = Pick(BookPool, mask)
  /\ clock = 0
  /\ nextOid = 1
  /\ recorded = 0
  /\ call = NoCall
  /\ resp = NoResp

CallShapeMovieReview ==
  \E i \in 1..Len(movieReviews), outcome \in MovieOutcomes :
    /\ Idle
    /\ call' = [op |-> "_shape_movie_review", review |-> movieReviews[i],
                outcome |-> outcome]
    /\ resp' = _shape_movie_review(movieReviews[i], outcome)
    /\ UNCHANGED <<users, userActivities, movieReviews, bookReviews, clock,
                   nextOid, recorded>>

CallShapeBookReview ==
  \E i \in 1..Len(bookReviews), outcome \in BookOutcomes :
    /\ Idle
    /\ call' = [op |-> "_shape_book_review", review |-> bookReviews[i],
                outcome |-> outcome]
    /\ resp' = _shape_book_review(bookReviews[i], outcome)
    /\ UNCHANGED <<users, userActivities, movieReviews, bookReviews, clock,
                   nextOid, recorded>>

\* the number of reviews of a collection that a user id selects
CountFor(coll, user_id) ==
  IF IsValidOid(Strip(user_id))
  THEN Len(FindByUsers(coll, <<ObjectId(Strip(user_id))>>)) ELSE 0

ListReviews ==
  \E user_id \in {"a1", " a2 ", "zz"}, tb \in TieOrders :
    \E mo \in [1..CountFor(movieReviews, user_id) -> MovieOutcomes],
       bo \in [1..CountFor(bookReviews, user_id) -> BookOutcomes] :
      /\ Idle
      /\ call' = [op |-> "list_reviews", user_id |-> user_id,
                  movies |-> mo, books |-> bo]
      /\ resp' = list_reviews(movieReviews, bookReviews, user_id, mo, bo, tb)
      /\ UNCHANGED <<users, userActivities, movieReviews, bookReviews, clock,
                     nextOid, recorded>>

NextReviews ==
  \/ CallShapeMovieReview
  \/ CallShapeBookReview
  \/ ListReviews
  \/ Respond

SpecReviews == InitReviews /\ [][NextReviews]_vars

\* datetime.fromisoformat of a shaped date
FromIso(x) == IF x.t = "isostr" THEN PyDate(x.ms) ELSE x

\* the shaped review carries the stored rating, title, body and dates
KeepsOwnFields(shape, review) ==
  /\ shape.t = "dict"
  /\ \A k \in {"rating", "title", "body", "createdAt", "updatedAt"} : k \in DOMAIN shape.d
  /\ shape.d["rating"] = Get(review, "rating")
  /\ shape.d["title"] = Get(review, "title")
  /\ shape.d["body"] = Get(review, "body")
  /\ FromIso(shape.d["createdAt"]) = Get(review, "createdAt")
  /\ FromIso(shape.d["updatedAt"]) = Get(review, "updatedAt")

\* C9: when the book catalog lookup of a review fails, _shape_book_review
\* still returns the review with itemTitle, itemAuthor and itemCover absent,
\* and list_reviews does not fail.
C9_BookLookupAbsorbed ==
  /\ (call.op = "_shape_book_review" /\ call.outcome = "error") =>
       /\ KeepsOwnFields(resp, call.review)
       /\ resp.d["itemTitle"] = PyNone
       /\ resp.d["itemAuthor"] = PyNone
       /\ resp.d["itemCover"] = PyNone
  /\ (call.op = "list_reviews" /\ IsValidOid(Strip(call.user_id))) =>
       resp.status = 200

\* C10: whatever the movie catalog lookup does, _shape_movie_review returns
\* the stored rating, title, body, createdAt and updatedAt; when the lookup
\* fails only itemTitle, itemPoster and itemYear are absent.
C10_MovieFieldsKept ==
  call.op = "_shape_movie_review" =>
    /\ KeepsOwnFields(resp, call.review)
    /\ resp.d["id"] = PyStr(call.review["_id"].v)
    /\ resp.d["itemId"] = call.review["movieId"]
    /\ call.outcome \in {"no_key", "raise", "not_ok"} =>
         /\ resp.d["itemTitle"] = PyNone
         /\ resp.d["itemPoster"] = PyNone
         /\ resp.d["itemYear"] = PyNone
    /\ call.outcome = "ok" =>
         /\ resp.d["itemTitle"] = PyStr("Fight Club")
         /\ resp.d["itemYear"] = PyStr("1999")

\* the lookup raised and the review came back with its own fields
C10_Witness ==
  /\ call.op = "_shape_movie_review"
  /\ call.outcome = "raise"
  /\ resp.t = "dict"
  /\ resp.d["rating"] = PyInt("7")
  /\ resp.d["createdAt"] = PyIso(2)
  /\ resp.d["itemTitle"] = PyNone

(***************************************************************************)
(* The review listing over both collections                                *)
(***************************************************************************)
\* the reviews of both collections that a user id selects
ReviewsOf(user_id) ==
  LET oid == ObjectId(Strip(user_id))
  IN FindByUsers(movieReviews, <<oid>>) \o FindByUsers(bookReviews, <<oid>>)

\* the listed items whose id is that of the stored review
ListedAs(items, review) ==
  {i \in 1..Len(items) : items[i].d["id"] = PyStr(Str(review["_id"]))}

\* newest first, an item without createdAt after every item that has one
NewestFirst(items) ==
  \A i, j \in 1..Len(items) :
    i < j => SortKey(items[i].d) >= SortKey(items[j].d)

\* C11: list_reviews returns every movie review and every book review of
\* the user exactly once, in one list sorted by createdAt descending across
\* both kinds, the reviews without createdAt after all the others.
C11_AllReviewsSorted ==
  (call.op = "list_reviews" /\ IsValidOid(Strip(call.user_id))) =>
    /\ resp.status = 200
    /\ Len(resp.body.items) = Len(ReviewsOf(call.user_id))
    /\ \A j \in 1..Len(ReviewsOf(call.user_id)) :
         Cardinality(ListedAs(resp.body.items, ReviewsOf(call.user_id)[j])) = 1
    /\ NewestFirst(resp.body.items)

\* the same statement for the requests in which no book lookup fails
ListingSoundWhenLookupsWork ==
  (call.op = "list_reviews" /\ IsValidOid(Strip(call.user_id))
     /\ \A i \in DOMAIN call.books : call.books[i] /= "error") =>
    /\ resp.status = 200
    /\ Len(resp.body.items) = Len(ReviewsOf(call.user_id))
    /\ \A j \in 1..Len(ReviewsOf(call.user_id)) :
         Cardinality(ListedAs(resp.body.items, ReviewsOf(call.user_id)[j])) = 1
    /\ NewestFirst(resp.body.items)

(***************************************************************************)
(* Python numbers.  int is unbounded, so a value is held as the pair       *)
(* <<hi, lo>> with value = hi * 100000 + lo and 0 <= lo < 100000, and      *)
(* written as its decimal string.                                          *)
(***************************************************************************)
\* a float, written as its decimal string
PyFloat(s) == [t |-> "float", v |-> s]

IntLiterals ==
  {"0", "1", "7", "9", "10", "11", "550", "551", "2147483647", "2147483648",
   "-2147483648", "-2147483649"}

BigInt(s) ==
  CASE s = "0" -> <<0, 0>>
    [] s = "1" -> <<0, 1>>
    [] s = "7" -> <<0, 7>>
    [] s = "9" -> <<0, 9>>
    [] s = "10" -> <<0, 10>>
    [] s = "11" -> <<0, 11>>
    [] s = "550" -> <<0, 550>>
    [] s = "551" -> <<0, 551>>
    [] s = "2147483647" -> <<21474, 83647>>
    [] s = "2147483648" -> <<21474, 83648>>
    [] s = "-2147483648" -> <<-21475, 16352>>
    [] OTHER -> <<-21475, 16351>>

\* a < b on int values
IntLt(a, b) ==
  \/ BigInt(a)[1] < BigInt(b)[1]
  \/ BigInt(a)[1] = BigInt(b)[1] /\ BigInt(a)[2] < BigInt(b)[2]

\* int(x) of a float: the fraction is dropped
Trunc(s) == CASE s = "10.9" -> "10" [] s = "0.5" -> "0" [] OTHER -> "550"

\* int(x): the value, or the ValueError / TypeError that int raises on a str
\* that is no integer literal and on None, dicts and lists
py_int(x) ==
  CASE x.t = "int" /\ x.v \in IntLiterals -> [ok |-> TRUE, v |-> x.v]
    [] x.t = "float" -> [ok |-> TRUE, v |-> Trunc(x.v)]
    [] x.t = "str" /\ Strip(x.v) \in IntLiterals -> [ok |-> TRUE, v |-> Strip(x.v)]
    [] OTHER -> [ok |-> FALSE, v |-> ""]

INT32_MIN == "-2147483648"
INT32_MAX == "2147483647"

\* a range test that turns the largest int32 away
OutOfInt32_Strict(mid) == IntLt(mid, INT32_MIN) \/ ~IntLt(mid, INT32_MAX)

\* mid < -2147483648 or mid > 2147483647
OutOfInt32(mid) == IntLt(mid, INT32_MIN) \/ IntLt(INT32_MAX, mid)

RATING_MIN == "1"
RATING_MAX == "10"

(***************************************************************************)
(* update_one on a user document                                           *)
(***************************************************************************)
\* the document with field set to val
WithField(doc, field, val) ==
  [k \in DOMAIN doc \cup {field} |-> IF k = field THEN val ELSE doc[k]]

InList(list, x) == \E i \in 1..Len(list) : list[i] = x

\* {"$set": {field: val}}
SetField(db_users, h, field, val) ==
  IF h \notin DOMAIN db_users THEN db_users
  ELSE [db_users EXCEPT ![h] = WithField(db_users[h], field, val)]

\* {"$push": {field: x}}
Push(db_users, h, field, x) ==
  IF h \notin DOMAIN db_users THEN db_users
  ELSE [db_users EXCEPT ![h] =
          WithField(db_users[h], field, Append(GetList(db_users[h], field), x))]

\* {"$addToSet": {field: x}}: creates the list, adds x unless it is there
AddToSet(db_users, h, field, x) ==
  IF h \notin DOMAIN db_users THEN db_users
  ELSE IF InList(GetList(db_users[h], field), x) /\ field \in DOMAIN db_users[h]
  THEN db_users
  ELSE [db_users EXCEPT ![h] =
          WithField(db_users[h], field, Append(GetList(db_users[h], field), x))]

\* {"$pull": {field: {"$in": xs}}}: removes every occurrence, leaves a
\* missing field missing
PullIn(db_users, h, field, xs) ==
  IF h \notin DOMAIN db_users \/ field \notin DOMAIN db_users[h] THEN db_users
  ELSE [db_users EXCEPT ![h] =
          WithField(db_users[h], field,
                    SelectSeq(db_users[h][field], LAMBDA y : y \notin xs))]

\* {"$pull": {field: x}}
Pull(db_users, h, field, x) == PullIn(db_users, h, field, {x})

(***************************************************************************)
(* library/routes.py and tmdb/routes.py: list membership and reviews.      *)
(* db is the record of the four collections; env gives what the request    *)
(* meets: whether TMDB_V3_KEY is set (key), the outcome of its catalog     *)
(* lookup (mo, bo), the store step that raises (fail), the ids insert_one  *)
(* assigns (rid, aid) and datetime.utcnow() (now).  A handler returns the  *)
(* store it leaves, its response and the number of catalog calls it made.  *)
(***************************************************************************)
Out(db, r, catalog) == [db |-> db, resp |-> r, catalog |-> catalog]

ServerError(status) == Response(status, [error |-> "server", detail |-> "exception"])

_safe_book_title(book) ==
  IF book.t /= "dict" THEN PyNone
  ELSE IF Get(book.d, "title").t = "str" THEN book.d["title"]
  ELSE IF Get(book.d, "title").t /= "none" THEN PyStr(Str(book.d["title"]))
  ELSE PyNone

_safe_cover_url(book) ==
  IF book.t /= "dict" THEN PyNone
  ELSE LET covers == Get(book.d, "covers")
           cover_id == IF covers.t = "list" /\ covers.items /= <<>>
                       THEN covers.items[1] ELSE PyNone
       IN IF Truthy(cover_id)
          THEN PyStr("https://covers.openlibrary.org/b/id/" \o Str(cover_id) \o "-M.jpg")
          ELSE IF Get(book.d, "coverUrl").t = "str" THEN book.d["coverUrl"]
          ELSE PyNone

\* _log_activity: the row is inserted and its id pushed to the front of the
\* user's activities; a failure of either step is swallowed
_log_activity(db, user_oid, activity, meta, env) ==
  IF env.fail = "log_insert" THEN db
  ELSE LET rows == add_activity(db.userActivities, env.aid, user_oid, PyStr(activity),
                                IF meta.t = "dict" THEN meta ELSE PyNone, env.now)
       IN IF env.fail = "log_push" THEN [db EXCEPT !.userActivities = rows]
          ELSE [db EXCEPT !.userActivities = rows,
                          !.users = PushFront(db.users, Str(user_oid), "activities",
                                              PyOid(env.aid))]

\* title if (title is None or isinstance(title, str)) else str(title)
ReviewTitle(title) == IF title.t \in {"none", "str"} THEN title ELSE PyStr(Str(title))

\* a review document that keeps the rating as the payload gave it
NewReview_RawRating(rid, oid, itemKey, itemId, rating, title, body, now) ==
  [k \in {"_id", "userId", itemKey, "rating", "title", "body", "createdAt", "updatedAt"} |->
     CASE k = "_id" -> PyOid(rid)
       [] k = "userId" -> oid
       [] k = itemKey -> itemId
       [] k = "rating" -> rating
       [] k = "title" -> ReviewTitle(title)
       [] k = "body" -> PyStr(Strip(body.v))
       [] OTHER -> PyDate(now)]

\* the review document both create endpoints insert: rating is int(rating),
\* body is body.strip(); the two utcnow() calls of add_review_book are taken
\* as one instant
NewReview(rid, oid, itemKey, itemId, rating, title, body, now) ==
  [k \in {"_id", "userId", itemKey, "rating", "title", "body", "createdAt", "updatedAt"} |->
     CASE k = "_id" -> PyOid(rid)
       [] k = "userId" -> oid
       [] k = itemKey -> itemId
       [] k = "rating" -> PyInt(py_int(rating).v)
       [] k = "title" -> ReviewTitle(title)
       [] k = "body" -> PyStr(Strip(body.v))
       [] OTHER -> PyDate(now)]

\* a validation whose range test is off by one at both ends
CheckRatingAndBody_Lenient(rating, body) ==
  IF ~py_int(rating).ok THEN Response(400, ErrorBody("invalid_rating"))
  ELSE IF IntLt(py_int(rating).v, "0") \/ IntLt("11", py_int(rating).v)
  THEN Response(400, [error |-> "rating_out_of_range", min |-> 1, max |-> 10])
  ELSE IF body.t /= "str" \/ Strip(body.v) = ""
  THEN Response(400, ErrorBody("missing_body"))
  ELSE NoResp

\* the validation of rating and body that both create endpoints share: the
\* error response, or NoResp when the request passes
CheckRatingAndBody(rating, body) ==
  IF ~py_int(rating).ok THEN Response(400, ErrorBody("invalid_rating"))
  ELSE IF IntLt(py_int(rating).v, RATING_MIN) \/ IntLt(RATING_MAX, py_int(rating).v)
  THEN Response(400, [error |-> "rating_out_of_range", min |-> 1, max |-> 10])
  ELSE IF body.t /= "str" \/ Strip(body.v) = ""
  THEN Response(400, ErrorBody("missing_body"))
  ELSE NoResp

\* a partial-success answer that does not name the review
UpdateFailed_NoId(rid) == Response(500, [error |-> "server", detail |-> "exception"])

\* the answer to a failed user-document update after the insert
UpdateFailed(rid) == Response(500, [error |-> "user_update_failed", reviewId |-> rid])

\* updates that leave the item on the wishlist
AfterInsert_NoPull(db, h, refField, doneField, laterField, itemId, env) ==
  IF env.fail = "add_ref" THEN [db |-> db, ok |-> FALSE]
  ELSE LET db1 == [db EXCEPT !.users = AddToSet(db.users, h, refField, PyOid(env.rid))]
       IN IF env.fail = "add_list" THEN [db |-> db1, ok |-> FALSE]
          ELSE [db |-> [db1 EXCEPT !.users = AddToSet(db1.users, h, doneField, itemId)],
                ok |-> env.fail /= "pull"]

\* the updates of the user document that follow the insert of a review, each
\* a separate update_one: the reference, the read/watched list, the wishlist
AfterInsert(db, h, refField, doneField, laterField, itemId, env) ==
  IF env.fail = "add_ref" THEN [db |-> db, ok |-> FALSE]
  ELSE LET db1 == [db EXCEPT !.users = AddToSet(db.users, h, refField, PyOid(env.rid))]
       IN IF env.fail = "add_list" THEN [db |-> db1, ok |-> FALSE]
          ELSE LET db2 == [db1 EXCEPT !.users = AddToSet(db1.users, h, doneField, itemId)]
               IN IF env.fail = "pull" THEN [db |-> db2, ok |-> FALSE]
                  ELSE [db |-> [db2 EXCEPT !.users =
                                   Pull(db2.users, h, laterField, itemId)],
                        ok |-> TRUE]

\* POST /createmoviereview
create_movie_review(db, payload, env) ==
  LET user_id == Or(Get(payload, "userId"), PyStr(""))
      rating == Get(payload, "rating")
      body == Get(payload, "body")
  IN IF user_id.t /= "str" THEN Out(db, ServerError(500), 0)
     ELSE IF ~IsValidOid(Strip(user_id.v))
     THEN Out(db, Response(400, ErrorBody("invalid_user_id")), 0)
     ELSE IF ~py_int(Get(payload, "movieId")).ok
     THEN Out(db, Response(400, ErrorBody("invalid_movie_id")), 0)
     ELSE IF OutOfInt32(py_int(Get(payload, "movieId")).v)
     THEN Out(db, Response(400, ErrorBody("movie_id_out_of_range_int32")), 0)
     ELSE IF CheckRatingAndBody(rating, body) /= NoResp
     THEN Out(db, CheckRatingAndBody(rating, body), 0)
     ELSE IF ~env.key THEN Out(db, ServerError(500), 0)
     ELSE LET oid == ObjectId(Strip(user_id.v))
              mid == PyInt(py_int(Get(payload, "movieId")).v)
              found == _fetch_movie_simple(mid, env.mo)
          IN IF found.t = "raise" THEN Out(db, ServerError(500), 1)
             ELSE IF ~Truthy(found)
             THEN Out(db, Response(404, [error |-> "movie_not_found_tmdb",
                                         movieId |-> mid.v]), 1)
             ELSE IF env.fail = "find_user" THEN Out(db, ServerError(500), 1)
             ELSE IF Str(oid) \notin DOMAIN db.users
             THEN Out(db, Response(404, ErrorBody("user_not_found")), 1)
             ELSE IF env.fail = "insert" THEN Out(db, ServerError(500), 1)
             ELSE IF env.fail = "duplicate"
             THEN Out(db, Response(409, ErrorBody("duplicate_review")), 1)
             ELSE LET doc == NewReview(env.rid, oid, "movieId", mid, rating,
                                       Get(payload, "title"), body, env.now)
                      db1 == [db EXCEPT !.movieReviews = Append(db.movieReviews, doc)]
                      upd == AfterInsert(db1, Str(oid), "movieReviews", "watchedMovies",
                                         "watchLaterMovies", mid, env)
                  IN IF ~upd.ok THEN Out(upd.db, UpdateFailed(env.rid), 1)
                     ELSE Out(upd.db,
                              Response(201, [ok |-> TRUE, id |-> env.rid,
                                             movieId |-> mid.v, userId |-> Str(oid),
                                             rating |-> py_int(rating).v]), 1)

\* the meta of the activity that add_review_book logs
ReviewMeta(book_id, rating, title, rid, b) ==
  PyDict([k \in {"bookId", "rating", "title", "reviewId", "type", "coverUrl"} |->
     CASE k = "bookId" -> book_id
       [] k = "rating" -> PyInt(py_int(rating).v)
       [] k = "title" -> (IF title.t = "str" THEN title ELSE PyNone)
       [] k = "reviewId" -> PyStr(rid)
       [] k = "type" -> PyStr("book")
       [] OTHER -> _safe_cover_url(b)])

\* POST /createbookreview; the except clause of the view returns its error
\* body without a status, which the framework sends as 200
add_review_book(db, payload, env) ==
  LET user_id == Or(Get(payload, "userId"), PyStr(""))
      book_id == Get(payload, "bookId")
      rating == Get(payload, "rating")
      body == Get(payload, "body")
  IN IF user_id.t /= "str" \/ ~IsValidOid(Strip(user_id.v))
     THEN Out(db, ServerError(200), 0)
     ELSE LET oid == ObjectId(Strip(user_id.v))
              b == get_book_by_id(book_id, env.bo)
          IN IF b.t = "none"
             THEN Out(db, Response(404, ErrorBody("book_not_found")), 1)
             ELSE IF CheckRatingAndBody(rating, body) /= NoResp
             THEN Out(db, CheckRatingAndBody(rating, body), 1)
             ELSE IF env.fail = "find_user" THEN Out(db, ServerError(200), 1)
             ELSE IF Str(oid) \notin DOMAIN db.users
             THEN Out(db, Response(404, ErrorBody("user_not_found")), 1)
             ELSE IF env.fail \in {"insert", "duplicate"} THEN Out(db, ServerError(200), 1)
             ELSE LET doc == NewReview(env.rid, oid, "bookId", book_id, rating,
                                       Get(payload, "title"), body, env.now)
                      db1 == [db EXCEPT !.bookReviews = Append(db.bookReviews, doc)]
                      upd == AfterInsert(db1, Str(oid), "bookReviews", "readBooks",
                                         "toBeReadBooks", book_id, env)
                  IN IF ~upd.ok THEN Out(upd.db, UpdateFailed(env.rid), 1)
                     ELSE Out(_log_activity(upd.db, oid, "Reviewed book",
                                            ReviewMeta(book_id, rating,
                                                       Get(payload, "title"), env.rid, b),
                                            env),
                              Response(201, [ok |-> TRUE, id |-> env.rid,
                                             bookId |-> book_id, userId |-> Str(oid),
                                             rating |-> py_int(rating).v]), 1)

\* a set of rows that takes every row of the user for a row of the review
RelatedActs_AllOfUser(coll, oid, s) ==
  SelectSeq(coll, LAMBDA row : row["userId"] = oid)

\* the rows db.userActivities.find({"userId": oid, "meta.reviewId": s}) selects
RelatedActs(coll, oid, s) ==
  SelectSeq(coll, LAMBDA row :
    /\ row["userId"] = oid
    /\ Get(row, "meta").t = "dict"
    /\ Get(row["meta"].d, "reviewId") = PyStr(s))

\* DELETE /reviews/<kind>/<review_id>
delete_review(db, kind, review_id, env) ==
  LET kind_norm == Lower(Strip(kind))
  IN IF kind_norm \notin {"movie", "book"}
     THEN Out(db, Response(400, ErrorBody("invalid_kind")), 0)
     ELSE IF ~IsValidOid(Strip(review_id))
     THEN Out(db, Response(400, ErrorBody("invalid_review_id")), 0)
     ELSE LET rid == ObjectId(Strip(review_id))
              coll == IF kind_norm = "movie" THEN db.movieReviews ELSE db.bookReviews
              hits == SelectSeq(coll, LAMBDA d : d["_id"] = rid)
          IN IF hits = <<>>
             THEN Out(db, Response(404, ErrorBody("review_not_found")), 0)
             ELSE LET doc == hits[1]
                      rest == SelectSeq(coll, LAMBDA d : d["_id"] /= rid)
                      db1 == IF kind_norm = "movie"
                             THEN [db EXCEPT !.movieReviews = rest]
                             ELSE [db EXCEPT !.bookReviews = rest]
                      user_oid == IF Get(doc, "userId").t = "oid"
                                  THEN doc["userId"] ELSE PyNone
                      field == IF kind_norm = "movie" THEN "movieReviews"
                               ELSE "bookReviews"
                      db2 == IF user_oid.t = "oid" /\ env.fail /= "pull_ref"
                             THEN [db1 EXCEPT !.users =
                                     Pull(db1.users, Str(user_oid), field, rid)]
                             ELSE db1
                      related == IF user_oid.t = "oid" /\ env.fail /= "find_acts"
                                 THEN RelatedActs(db2.userActivities, user_oid, review_id)
                                 ELSE <<>>
                      act_ids == {related[i]["_id"] : i \in 1..Len(related)}
                      db3 == [db2 EXCEPT !.userActivities =
                                SelectSeq(db2.userActivities,
                                          LAMBDA row : row["_id"] \notin act_ids)]
                      db4 == IF act_ids /= {} /\ env.fail /= "pull_acts"
                             THEN [db3 EXCEPT !.users =
                                     PullIn(db3.users, Str(user_oid), "activities", act_ids)]
                             ELSE db3
                  IN Out(db4,
                         Response(200, [ok |-> TRUE, kind |-> kind_norm,
                                        reviewId |-> review_id, deleted |-> TRUE,
                                        userId |-> user_oid]), 0)

\* the meta of the activity that add_read_book and add_tbr_book log
BookMeta(book_id, status, b) ==
  LET base == {"bookId", "status", "type", "coverUrl"}
      keys == IF Truthy(_safe_book_title(b)) THEN base \cup {"title"} ELSE base
  IN PyDict([k \in keys |->
       CASE k = "bookId" -> PyStr(book_id)
         [] k = "status" -> PyStr(status)
         [] k = "type" -> PyStr("book")
         [] k = "coverUrl" -> _safe_cover_url(b)
         [] OTHER -> _safe_book_title(b)])

\* the body shared by add_read_book and add_tbr_book: field is the list
\* the book joins, pulled the list it leaves ("" for none)
AddBook(db, user_id, book_id, env, field, pulled, label, status) ==
  IF ~IsValidOid(user_id) THEN Out(db, ServerError(500), 0)
  ELSE LET oid == ObjectId(user_id)
           h == Str(oid)
           b == get_book_by_id(PyStr(book_id), env.bo)
       IN IF b.t = "none" THEN Out(db, Response(404, ErrorBody("book_not_found")), 1)
          ELSE IF env.fail = "find_user" THEN Out(db, ServerError(500), 1)
          ELSE IF h \notin DOMAIN db.users
          THEN Out(db, Response(404, ErrorBody("user_not_found")), 1)
          ELSE IF \E i \in 1..Len(GetList(db.users[h], field)) :
                    Str(db.users[h][field][i]) = book_id
          THEN Out(db, Response(409, ErrorBody("duplicate_entry")), 1)
          ELSE IF env.fail = "add_list" THEN Out(db, ServerError(500), 1)
          ELSE LET users1 == IF field \notin DOMAIN db.users[h]
                             THEN SetField(db.users, h, field, <<PyStr(book_id)>>)
                             ELSE Push(db.users, h, field, PyStr(book_id))
                   db1 == [db EXCEPT !.users = users1]
               IN IF pulled /= "" /\ env.fail = "pull" THEN Out(db1, ServerError(500), 1)
                  ELSE LET db2 == IF pulled = "" THEN db1
                                  ELSE [db1 EXCEPT !.users =
                                          Pull(db1.users, h, pulled, PyStr(book_id))]
                       IN Out(_log_activity(db2, oid, label,
                                            BookMeta(book_id, status, b), env),
                              Response(200, [ok |-> TRUE, userId |-> user_id,
                                             bookId |-> book_id]), 1)

\* POST /read/user/<user_id>/book/<book_id>
add_read_book(db, user_id, book_id, env) ==
  AddBook(db, user_id, book_id, env, "readBooks", "toBeReadBooks",
          "Added book to Read", "Read")

\* POST /toberead/user/<user_id>/book/<book_id>
add_tbr_book(db, user_id, book_id, env) ==
  AddBook(db, user_id, book_id, env, "toBeReadBooks", "",
          "Added book to Read Later", "Read Later")

\* the validation of <userID> and <movieID> that the four movie-list
\* endpoints share: the error response, or NoResp when both pass
CheckMoviePath(userID, movieID) ==
  IF ~IsValidOid(Strip(userID)) THEN Response(400, ErrorBody("invalid_id"))
  ELSE IF ~py_int(PyStr(movieID)).ok THEN Response(400, ErrorBody("invalid_movie_id"))
  ELSE IF OutOfInt32(py_int(PyStr(movieID)).v)
  THEN Response(400, ErrorBody("movie_id_out_of_range_int32"))
  ELSE NoResp

\* the body shared by add_watched_movie and add_watch_later_movie
AddMovie(db, userID, movieID, env, field, dupCode) ==
  IF CheckMoviePath(userID, movieID) /= NoResp
  THEN Out(db, CheckMoviePath(userID, movieID), 0)
  ELSE IF ~env.key THEN Out(db, ServerError(500), 0)
  ELSE LET h == Str(ObjectId(Strip(userID)))
           mid == PyInt(py_int(PyStr(movieID)).v)
           m == _fetch_movie_simple(mid, env.mo)
       IN IF m.t = "raise" THEN Out(db, ServerError(500), 1)
          ELSE IF ~Truthy(m)
          THEN Out(db, Response(404, [error |-> "movie_not_found_tmdb",
                                      movieId |-> mid.v]), 1)
          ELSE IF env.fail = "find_user" THEN Out(db, ServerError(500), 1)
          ELSE IF h \notin DOMAIN db.users
          THEN Out(db, Response(404, ErrorBody("user_not_found")), 1)
          ELSE IF \E i \in 1..Len(GetList(db.users[h], field)) :
                    /\ py_int(db.users[h][field][i]).ok
                    /\ py_int(db.users[h][field][i]).v = mid.v
          THEN Out(db, Response(409, [error |-> dupCode, movieId |-> mid.v]), 1)
          ELSE IF env.fail = "add_list" THEN Out(db, ServerError(500), 1)
          ELSE LET users1 == IF field \notin DOMAIN db.users[h]
                             THEN SetField(db.users, h, field, <<mid>>)
                             ELSE AddToSet(db.users, h, field, mid)
               IN Out([db EXCEPT !.users = users1],
                      Response(200, [ok |-> TRUE, userId |-> Strip(userID),
                                     movieId |-> mid.v,
                                     count |-> Len(GetList(users1[h], field))]), 1)

\* POST /addwatchedmovie/user/<userID>/movie/<movieID>
add_watched_movie(db, userID, movieID, env) ==
  AddMovie(db, userID, movieID, env, "watchedMovies", "already_in_watched")

\* POST /addwatchlatermovie/user/<userID>/movie/<movieID>
add_watch_later_movie(db, userID, movieID, env) ==
  AddMovie(db, userID, movieID, env, "watchLaterMovies", "already_in_watch_later")

\* the body shared by remove_watched_movie and remove_watch_later_movie
RemoveMovie(db, userID, movieID, env, field) ==
  IF CheckMoviePath(userID, movieID) /= NoResp
  THEN Out(db, CheckMoviePath(userID, movieID), 0)
  ELSE LET h == Str(ObjectId(Strip(userID)))
           mid == PyInt(py_int(PyStr(movieID)).v)
       IN IF env.fail = "find_user" THEN Out(db, ServerError(500), 0)
          ELSE IF h \notin DOMAIN db.users
          THEN Out(db, Response(404, ErrorBody("user_not_found")), 0)
          ELSE IF env.fail = "pull" THEN Out(db, ServerError(500), 0)
          ELSE LET users1 == Pull(db.users, h, field, mid)
               IN Out([db EXCEPT !.users = users1],
                      Response(200, [ok |-> TRUE, userId |-> h, movieId |-> mid.v,
                                     removed |-> users1 /= db.users,
                                     count |-> Len(GetList(users1[h], field))]), 0)

\* DELETE /removewatchedmovie/user/<userID>/movie/<movieID>
remove_watched_movie(db, userID, movieID, env) ==
  RemoveMovie(db, userID, movieID, env, "watchedMovies")

\* DELETE /removewatchlatermovie/user/<userID>/movie/<movieID>
remove_watch_later_movie(db, userID, movieID, env) ==
  RemoveMovie(db, userID, movieID, env, "watchLaterMovies")

(***************************************************************************)
(* The library requests: list membership, reviews and their activity rows  *)
(***************************************************************************)
DB == [users |-> users, userActivities |-> userActivities,
       movieReviews |-> movieReviews, bookReviews |-> bookReviews]

\* what a request meets when nothing goes wrong
Calm == [key |-> TRUE, mo |-> "ok", bo |-> "ok", fail |-> "none"]

\* one thing going wrong in a request: the catalog key is not set, the
\* catalog lookup has another outcome, or one store step raises
MovieTroubles ==
  {Calm, [Calm EXCEPT !.key = FALSE]}
  \cup {[Calm EXCEPT !.mo = o] : o \in MovieOutcomes}
  \cup {[Calm EXCEPT !.fail = f] :
          f \in {"find_user", "insert", "duplicate", "add_ref", "add_list", "pull"}}

BookTroubles ==
  {[Calm EXCEPT !.bo = o] : o \in {"ok", "error", "no_content"}}
  \cup {[Calm EXCEPT !.fail = f] :
          f \in {"find_user", "insert", "add_ref", "add_list", "pull"}}

\* a failure of one of the two steps of _log_activity
LogTroubles ==
  {[Calm EXCEPT !.fail = f] : f \in {"none", "log_insert", "log_push"}}

DeleteTroubles ==
  {[Calm EXCEPT !.fail = f] : f \in {"none", "pull_ref", "find_acts", "pull_acts"}}

\* the env of a request: its troubles, the ids the store assigns next and
\* the time of the request
Env(trouble) ==
  [key |-> trouble.key, mo |-> trouble.mo, bo |-> trouble.bo, fail |-> trouble.fail,
   rid |-> NewReviewHex[nextOid], aid |-> ActHex[nextOid], now |-> clock + 1]

\* a create-review payload
ReviewPayload(userId, itemKey, itemId, rating, body) ==
  [k \in {"userId", itemKey, "rating", "title", "body"} |->
     CASE k = "userId" -> PyStr(userId)
       [] k = itemKey -> itemId
       [] k = "rating" -> rating
       [] k = "title" -> PyStr("Great")
       [] OTHER -> body]

Ratings ==
  {PyInt("0"), PyInt("1"), PyInt("10"), PyInt("11"), PyFloat("10.9"),
   PyFloat("0.5"), PyStr("x"), PyNone}
Bodies == {PyStr(" Loved it "), PyStr("  "), PyNone}
ReviewerIds == {"a1", GhostHex, "zz"}

\* the sound payload of a create-review endpoint
SoundPayload(itemKey, itemId) ==
  ReviewPayload("a1", itemKey, itemId, PyInt("10"), PyStr(" Loved it "))

\* the payloads of a create-review endpoint: the sound one with every
\* rating, with every body and with every user
ReviewPayloads(itemKey, itemId) ==
  {ReviewPayload("a1", itemKey, itemId, r, PyStr(" Loved it ")) : r \in Ratings}
  \cup {ReviewPayload("a1", itemKey, itemId, PyInt("10"), b) : b \in Bodies}
  \cup {ReviewPayload(u, itemKey, itemId, PyInt("10"), PyStr(" Loved it ")) :
          u \in ReviewerIds}

\* the request is answered and the store is left as the handler leaves it
Answer(r, c) ==
  LET inserted == \/ Len(r.db.userActivities) > Len(userActivities)
                  \/ Len(r.db.movieReviews) > Len(movieReviews)
                  \/ Len(r.db.bookReviews) > Len(bookReviews)
  IN /\ users' = r.db.users
     /\ userActivities' = r.db.userActivities
     /\ movieReviews' = r.db.movieReviews
     /\ bookReviews' = r.db.bookReviews
     /\ clock' = IF inserted THEN clock + 1 ELSE clock
     /\ nextOid' = IF inserted THEN nextOid + 1 ELSE nextOid
     /\ call' = c
     /\ resp' = [status |-> r.resp.status, body |-> r.resp.body, catalog |-> r.catalog]
     /\ UNCHANGED recorded

PostMovieReview(payloads, troubles) ==
  \E payload \in payloads, trouble \in troubles :
    /\ Idle
    /\ nextOid <= MaxActs
    /\ trouble = Calm \/ payload = SoundPayload("movieId", PyInt("550"))
    /\ Answer(create_movie_review(DB, payload, Env(trouble)),
              [op |-> "create_movie_review", payload |-> payload, trouble |-> trouble])

PostBookReview(payloads, troubles) ==
  \E payload \in payloads, trouble \in troubles :
    /\ Idle
    /\ nextOid <= MaxActs
    /\ trouble = Calm \/ payload = SoundPayload("bookId", PyStr("OL1W"))
    /\ Answer(add_review_book(DB, payload, Env(trouble)),
              [op |-> "add_review_book", payload |-> payload, trouble |-> trouble])

DeleteReviewOf(kinds, ids, troubles) ==
  \E kind \in kinds, review_id \in ids, trouble \in troubles :
    /\ Idle
    /\ trouble = Calm \/ (kind = "book" /\ review_id \in {"e1", "e2"})
    /\ Answer(delete_review(DB, kind, review_id, Env(trouble)),
              [op |-> "delete_review", kind |-> kind, review_id |-> review_id,
               trouble |-> trouble])

PostBook(op, user_ids, troubles) ==
  \E user_id \in user_ids, trouble \in troubles :
    /\ Idle
    /\ nextOid <= MaxActs
    /\ trouble = Calm \/ user_id = "a1"
    /\ Answer(IF op = "add_read_book"
              THEN add_read_book(DB, user_id, "OL1W", Env(trouble))
              ELSE add_tbr_book(DB, user_id, "OL1W", Env(trouble)),
              [op |-> op, user_id |-> user_id, book_id |-> "OL1W", trouble |-> trouble])

PostMovie(op, user_ids, movie_ids, troubles) ==
  \E userID \in user_ids, movieID \in movie_ids, trouble \in troubles :
    /\ Idle
    /\ trouble = Calm \/ (userID = "a1" /\ movieID = "550")
    /\ Answer(CASE op = "add_watched_movie" ->
                     add_watched_movie(DB, userID, movieID, Env(trouble))
                [] op = "add_watch_later_movie" ->
                     add_watch_later_movie(DB, userID, movieID, Env(trouble))
                [] op = "remove_watched_movie" ->
                     remove_watched_movie(DB, userID, movieID, Env(trouble))
                [] OTHER -> remove_watch_later_movie(DB, userID, movieID, Env(trouble)),
              [op |-> op, userID |-> userID, movieID |-> movieID, trouble |-> trouble])

\* GET /reviews/user/<user_id> with every catalog lookup answering
ListReviewsCalm ==
  \E user_id \in {"a1", "zz"}, tb \in TieOrders :
    /\ Idle
    /\ call' = [op |-> "list_reviews", user_id |-> user_id,
                movies |-> [i \in 1..CountFor(movieReviews, user_id) |-> "ok"],
                books |-> [i \in 1..CountFor(bookReviews, user_id) |-> "ok"]]
    /\ resp' = list_reviews(movieReviews, bookReviews, user_id,
                            [i \in 1..CountFor(movieReviews, user_id) |-> "ok"],
                            [i \in 1..CountFor(bookReviews, user_id) |-> "ok"], tb)
    /\ UNCHANGED <<users, userActivities, movieReviews, bookReviews, clock,
                   nextOid, recorded>>

InitLibrary ==
  /\ users = [h \in UserHex |-> UserDoc(h, EmptyMap)]
  /\ userActivities = <<>>
  /\ movieReviews = <<>>
  /\ bookReviews = <<>>
  /\ clock = 0
  /\ nextOid = 1
  /\ recorded = 0
  /\ call = NoCall
  /\ resp = NoResp

(***************************************************************************)
(* Creating reviews                                                        *)
(***************************************************************************)
CreateMovieReview ==
  PostMovieReview(ReviewPayloads("movieId", PyInt("550")), MovieTroubles)

CreateBookReview ==
  PostBookReview(ReviewPayloads("bookId", PyStr("OL1W")), BookTroubles)

DeleteReview == DeleteReviewOf({"movie", "book"}, {"e1", "e2", GhostReviewHex}, {Calm})

AddWatchedMovie == PostMovie("add_watched_movie", {"a1"}, {"550"}, {Calm})

AddWatchLaterMovie == PostMovie("add_watch_later_movie", {"a1"}, {"550"}, {Calm})

AddReadBook == PostBook("add_read_book", {"a1"}, {Calm})

AddTbrBook == PostBook("add_tbr_book", {"a1"}, {Calm})

NextCreate ==
  \/ CreateMovieReview
  \/ CreateBookReview
  \/ DeleteReview
  \/ AddWatchedMovie
  \/ AddWatchLaterMovie
  \/ AddReadBook
  \/ AddTbrBook
  \/ ListReviewsCalm
  \/ Respond

SpecCreate == InitLibrary /\ [][NextCreate]_vars

\* the request just answered is a create-review request
IsCreate(c) == c.op \in {"create_movie_review", "add_review_book"}

\* the collection a create-review request inserts into, and the user lists
\* it updates
ReviewsFor(c, movies, books) == IF c.op = "create_movie_review" THEN movies ELSE books
RefField(c) == IF c.op = "create_movie_review" THEN "movieReviews" ELSE "bookReviews"
DoneField(c) == IF c.op = "create_movie_review" THEN "watchedMovies" ELSE "readBooks"
LaterField(c) ==
  IF c.op = "create_movie_review" THEN "watchLaterMovies" ELSE "toBeReadBooks"
ItemOf(c) ==
  IF c.op = "create_movie_review" THEN PyInt(py_int(c.payload["movieId"]).v)
  ELSE c.payload["bookId"]

\* the payload is sound but for its rating, and the request meets no trouble
SoundButRating(c) ==
  /\ IsCreate(c)
  /\ c.trouble = Calm
  /\ c.payload["userId"] = PyStr("a1")
  /\ c.payload["body"] = PyStr(" Loved it ")

\* C12: createmoviereview and createbookreview accept rating 1 and rating 10
\* and reject rating 0 and rating 11 with rating_out_of_range and status 400;
\* a rejected request inserts no review, changes no user list and logs no
\* activity.
C12_RatingBounds ==
  [][SoundButRating(call') =>
       /\ call'.payload["rating"] \in {PyInt("0"), PyInt("11")} =>
            /\ resp'.status = 400
            /\ resp'.body.error = "rating_out_of_range"
            /\ movieReviews' = movieReviews
            /\ bookReviews' = bookReviews
            /\ users' = users
            /\ userActivities' = userActivities
       /\ call'.payload["rating"] \in {PyInt("1"), PyInt("10")} =>
            /\ resp'.status = 201
            /\ Len(ReviewsFor(call', movieReviews', bookReviews'))
                 = Len(ReviewsFor(call', movieReviews, bookReviews)) + 1
            /\ \E i \in 1..Len(ReviewsFor(call', movieReviews', bookReviews')) :
                 /\ ReviewsFor(call', movieReviews', bookReviews')[i]["_id"]
                      = PyOid(resp'.body.id)
                 /\ ReviewsFor(call', movieReviews', bookReviews')[i]["rating"]
                      = call'.payload["rating"]]_vars

\* a book review with rating 11 was turned away while a review was stored
C12_Witness ==
  /\ call.op = "add_review_book"
  /\ call.payload["rating"] = PyInt("11")
  /\ resp.status = 400
  /\ resp.body.error = "rating_out_of_range"
  /\ movieReviews /= <<>>

\* an integer rating in [1, 10] and a body that is not blank
WellFormedReview(doc) ==
  /\ doc["rating"].t = "int"
  /\ doc["rating"].v \in IntLiterals
  /\ ~IntLt(doc["rating"].v, "1")
  /\ ~IntLt("10", doc["rating"].v)
  /\ doc["body"].t = "str"
  /\ Strip(doc["body"].v) /= ""

\* C13: every document of movieReviews and bookReviews has an integer
\* rating in [1, 10] and a body that is non-empty after trimming, whatever
\* create-review, delete-review and list requests have run.
C13_ReviewsWellFormed ==
  /\ \A i \in 1..Len(movieReviews) : WellFormedReview(movieReviews[i])
  /\ \A i \in 1..Len(bookReviews) : WellFormedReview(bookReviews[i])

\* a review sent with rating 10.9 is stored with rating 10, next to a book
\* review
C13_Witness ==
  /\ call.op = "create_movie_review"
  /\ call.payload["rating"] = PyFloat("10.9")
  /\ resp.status = 201
  /\ movieReviews[Len(movieReviews)]["rating"] = PyInt("10")
  /\ bookReviews /= <<>>

\* C14: when a create-review request completes with 201 for user u and item
\* x, x is in u's read/watched list and not in u's to-be-read/watch-later
\* list, whichever list held x before.
C14_Promoted ==
  (IsCreate(call) /\ resp.status = 201) =>
    LET doc == users[Strip(call.payload["userId"].v)]
    IN /\ InList(GetList(doc, DoneField(call)), ItemOf(call))
       /\ ~InList(GetList(doc, LaterField(call)), ItemOf(call))

\* the movie was on the watch-later list, which the request emptied, and
\* the book is still on the to-be-read list of the same user
C14_Witness ==
  /\ call.op = "create_movie_review"
  /\ resp.status = 201
  /\ "watchLaterMovies" \in DOMAIN users["a1"]
  /\ users["a1"]["watchLaterMovies"] = <<>>
  /\ users["a1"]["watchedMovies"] = <<PyInt("550")>>
  /\ InList(GetList(users["a1"], "toBeReadBooks"), PyStr("OL1W"))

\* the store steps after the insert of a review
LaterSteps == {"add_ref", "add_list", "pull"}

\* C15: create-review has no rollback: when the insert succeeds and a later
\* update of the user document fails, the inserted review stays in its
\* collection, the effects of the earlier steps stay, and the response is
\* user_update_failed with the id of the review.
C15_NoRollback ==
  [][(IsCreate(call') /\ call'.trouble.fail \in LaterSteps) =>
       LET after == ReviewsFor(call', movieReviews', bookReviews')
           before == ReviewsFor(call', movieReviews, bookReviews)
           doc == users'["a1"]
       IN /\ resp'.status = 500
          /\ resp'.body.error = "user_update_failed"
          /\ after = Append(before, after[Len(after)])
          /\ after[Len(after)]["_id"] = PyOid(resp'.body.reviewId)
          /\ call'.trouble.fail \in {"add_list", "pull"} =>
               InList(GetList(doc, RefField(call')), PyOid(resp'.body.reviewId))
          /\ call'.trouble.fail = "pull" =>
               InList(GetList(doc, DoneField(call')), ItemOf(call'))]_vars

\* the pull from the to-be-read list failed: the review, its reference and
\* the read-list entry are in the store
C15_Witness ==
  /\ call.op = "add_review_book"
  /\ call.trouble.fail = "pull"
  /\ resp.body.error = "user_update_failed"
  /\ bookReviews /= <<>>
  /\ InList(GetList(users["a1"], "bookReviews"), PyOid(resp.body.reviewId))
  /\ InList(GetList(users["a1"], "readBooks"), PyStr("OL1W"))
  /\ InList(GetList(users["a1"], "toBeReadBooks"), PyStr("OL1W"))

(***************************************************************************)
(* Tracked actions and their activity rows                                 *)
(***************************************************************************)
\* an activity a client posts for a review it created
ReviewedPayload(rid) ==
  [k \in {"activity", "meta"} |->
     IF k = "activity" THEN PyStr("Reviewed movie")
     ELSE PyDict([j \in {"reviewId", "type"} |->
            IF j = "reviewId" THEN PyStr(rid) ELSE PyStr("movie")])]

RecordActivity ==
  \E payload \in {ReviewedPayload("e1"), ReviewedPayload("e2")} :
    /\ Idle
    /\ nextOid <= MaxActs
    /\ LET r == add_user_activity(users, userActivities, "a1", payload,
                                  ActHex[nextOid], clock + 1)
       IN /\ users' = r.users
          /\ userActivities' = r.coll
          /\ clock' = clock + 1
          /\ nextOid' = nextOid + 1
          /\ call' = [op |-> "add_user_activity", userId |-> "a1", payload |-> payload]
          /\ resp' = r.resp
    /\ UNCHANGED <<movieReviews, bookReviews, recorded>>

ReadBook ==
  PostBook("add_read_book", {"a1", GhostHex},
           LogTroubles \cup {[Calm EXCEPT !.bo = "error"]})

TbrBook == PostBook("add_tbr_book", {"a1"}, LogTroubles)

WatchMovie == PostMovie("add_watched_movie", {"a1"}, {"550"}, {Calm})

WatchLaterMovie == PostMovie("add_watch_later_movie", {"a1"}, {"550"}, {Calm})

ReviewMovie == PostMovieReview({SoundPayload("movieId", PyInt("550"))}, {Calm})

ReviewBook == PostBookReview({SoundPayload("bookId", PyStr("OL1W"))}, LogTroubles)

RemoveReview ==
  DeleteReviewOf({"movie", "book", " Movie ", "film"},
                 {"e1", "e2", "E1", " e1 ", GhostReviewHex, "zz"}, DeleteTroubles)

NextActivities ==
  \/ RecordActivity
  \/ ReadBook
  \/ TbrBook
  \/ WatchMovie
  \/ WatchLaterMovie
  \/ ReviewMovie
  \/ ReviewBook
  \/ RemoveReview
  \/ Respond

SpecActivities == InitLibrary /\ [][NextActivities]_vars

\* the request just answered deleted a review; the store steps all succeeded
Deleted(c, r) == c.op = "delete_review" /\ r.status = 200 /\ c.trouble = Calm

\* the id, the collection and the reference list of the review a
\* delete_review request names
DeletedId(c) == ObjectId(Strip(c.review_id))
DeletedFrom(c, movies, books) ==
  IF Lower(Strip(c.kind)) = "movie" THEN movies ELSE books
DeletedRef(c) == IF Lower(Strip(c.kind)) = "movie" THEN "movieReviews" ELSE "bookReviews"

\* the activity row is about the review: its meta.reviewId is the id
RowOf(row, rid) ==
  /\ Get(row, "meta").t = "dict"
  /\ Get(row["meta"].d, "reviewId") = PyStr(Str(rid))

\* C16: after delete_review succeeds for a review r of user u, r is absent
\* from its collection, r's id is absent from u's reference list, no
\* userActivities row of u with meta.reviewId = r remains, u's activities
\* list holds none of the deleted activity ids, and the reviews, references
\* and activities not related to r are unchanged.
C16_DeletePrunes ==
  [][Deleted(call', resp') =>
       LET rid == DeletedId(call')
           before == DeletedFrom(call', movieReviews, bookReviews)
           r == SelectSeq(before, LAMBDA d : d["_id"] = rid)[1]
           u == Str(r["userId"])
           gone == {userActivities[i]["_id"] : i \in 1..Len(userActivities)}
                   \ {userActivities'[i]["_id"] : i \in 1..Len(userActivities')}
       IN /\ DeletedFrom(call', movieReviews', bookReviews')
               = SelectSeq(before, LAMBDA d : d["_id"] /= rid)
          /\ ~InList(GetList(users'[u], DeletedRef(call')), rid)
          /\ \A i \in 1..Len(userActivities') :
               ~(userActivities'[i]["userId"] = r["userId"]
                 /\ RowOf(userActivities'[i], rid))
          /\ \A a \in gone : ~InList(GetList(users'[u], "activities"), a)
          /\ userActivities'
               = SelectSeq(userActivities, LAMBDA row :
                   ~(row["userId"] = r["userId"] /\ RowOf(row, rid)))
          /\ Lower(Strip(call'.kind)) = "movie" => bookReviews' = bookReviews
          /\ Lower(Strip(call'.kind)) = "book" => movieReviews' = movieReviews
          /\ \A h \in DOMAIN users \ {u} : users'[h] = users[h]
          /\ \A k \in DOMAIN users[u] \ {DeletedRef(call'), "activities"} :
               users'[u][k] = users[u][k]]_vars

\* the same statement for the requests that spell the id as the store does
DeletePrunesPlainId ==
  [][(Deleted(call', resp') /\ call'.review_id = Str(DeletedId(call'))) =>
       LET rid == DeletedId(call')
           before == DeletedFrom(call', movieReviews, bookReviews)
           r == SelectSeq(before, LAMBDA d : d["_id"] = rid)[1]
           u == Str(r["userId"])
       IN /\ DeletedFrom(call', movieReviews', bookReviews')
               = SelectSeq(before, LAMBDA d : d["_id"] /= rid)
          /\ ~InList(GetList(users'[u], DeletedRef(call')), rid)
          /\ userActivities'
               = SelectSeq(userActivities, LAMBDA row :
                   ~(row["userId"] = r["userId"] /\ RowOf(row, rid)))
          /\ \A i \in 1..Len(userActivities) :
               (userActivities[i]["userId"] = r["userId"]
                  /\ RowOf(userActivities[i], rid))
               => ~InList(GetList(users'[u], "activities"), userActivities[i]["_id"])
          /\ \A h \in DOMAIN users \ {u} : users'[h] = users[h]
          /\ \A k \in DOMAIN users[u] \ {DeletedRef(call'), "activities"} :
               users'[u][k] = users[u][k]]_vars

\* the ids of the rows of a collection
IdsOf(coll) == {coll[i]["_id"] : i \in 1..Len(coll)}

\* the step deletes, with delete_review, the review that the row is about
DeletesReviewOf(row) ==
  /\ call'.op = "delete_review"
  /\ resp'.status = 200
  /\ \E d \in Range(DeletedFrom(call', movieReviews, bookReviews)) :
       /\ d["_id"] = DeletedId(call')
       /\ d["userId"] = row["userId"]
  /\ DeletedId(call') \notin IdsOf(DeletedFrom(call', movieReviews', bookReviews'))
  /\ Get(row, "meta").t = "dict"
  /\ Get(row["meta"].d, "reviewId").t = "str"
  /\ ObjectId(Strip(row["meta"].d["reviewId"].v)) = DeletedId(call')

\* C17: activity rows are immutable and append-only: no operation changes
\* the actor, label, meta or createdAt of a stored row, and a row leaves the
\* store only when delete_review deletes the review it references.
C17_RowsImmutable ==
  [][/\ \A i \in 1..Len(userActivities) :
          \/ \E j \in 1..Len(userActivities') : userActivities'[j] = userActivities[i]
          \/ /\ userActivities[i]["_id"] \notin IdsOf(userActivities')
             /\ DeletesReviewOf(userActivities[i])
     /\ SelectSeq(userActivities', LAMBDA row : row["_id"] \in IdsOf(userActivities))
          = SelectSeq(userActivities, LAMBDA row : row["_id"] \in IdsOf(userActivities'))
     /\ \A j \in 1..Len(userActivities') :
          userActivities'[j]["_id"] \notin IdsOf(userActivities)
            => j > Cardinality(IdsOf(userActivities) \cap IdsOf(userActivities'))]_vars

\* a review was deleted with its activity row while an older row of the
\* same user stayed
C17_Witness ==
  /\ call.op = "delete_review"
  /\ resp.status = 200
  /\ bookReviews = <<>>
  /\ nextOid = 3
  /\ Len(userActivities) = 1
  /\ userActivities[1]["activity"] = PyStr("Added book to Read")

\* the tracked actions and the user each acts for
Tracked ==
  {"add_read_book", "add_tbr_book", "add_watched_movie", "add_watch_later_movie",
   "add_review_book", "create_movie_review"}
ActingUser(c) ==
  CASE c.op \in {"add_read_book", "add_tbr_book"} -> ObjectId(c.user_id)
    [] c.op \in {"add_watched_movie", "add_watch_later_movie"} -> ObjectId(Strip(c.userID))
    [] OTHER -> ObjectId(Strip(c.payload["userId"].v))

\* C18: every successful tracked action (adding a book to read or
\* to-be-read, adding a movie to watched or watch-later, creating a book or
\* a movie review) leaves exactly one new userActivities row owned by the
\* acting user, when activity logging itself does not fail.
C18_TrackedLogged ==
  [][(call'.op \in Tracked /\ resp'.status \in {200, 201}
        /\ call'.trouble.fail \notin {"log_insert", "log_push"}) =>
       /\ Len(userActivities') = Len(userActivities) + 1
       /\ SubSeq(userActivities', 1, Len(userActivities)) = userActivities
       /\ userActivities'[Len(userActivities')]["userId"] = ActingUser(call')]_vars

\* the same statement for the book endpoints alone
BookActionsLogged ==
  [][(call'.op \in {"add_read_book", "add_tbr_book", "add_review_book"}
        /\ resp'.status \in {200, 201}
        /\ call'.trouble.fail \notin {"log_insert", "log_push"}) =>
       /\ Len(userActivities') = Len(userActivities) + 1
       /\ SubSeq(userActivities', 1, Len(userActivities)) = userActivities
       /\ userActivities'[Len(userActivities')]["userId"] = ActingUser(call')]_vars

(***************************************************************************)
(* tmdb/routes.py: _fetch_movies_parallel_ordered.  The lookups run in a   *)
(* thread pool and complete in any order; call holds the position of the   *)
(* function, the lookups still running and the results list.               *)
(***************************************************************************)
\* most movie ids in one batch
MaxIds == 3

DefaultMaxWorkers == 10

\* the sequences over S of length 1 to n
SeqsUpTo(S, n) == UNION {[1..k -> S] : k \in 1..n}

\* the loop "for mid in movie_ids: m = _fetch_movie_simple(mid); if m:
\* items.append(m)": the list, or the exception of the first lookup that raises
Sequential(movie_ids, outcomes) ==
  LET fetched == [i \in 1..Len(movie_ids) |->
                    _fetch_movie_simple(PyInt(movie_ids[i]), outcomes[i])]
  IN IF \E i \in 1..Len(fetched) : fetched[i].t = "raise"
     THEN Raise("RequestException")
     ELSE PyList(SelectSeq(fetched, LAMBDA m : Truthy(m)))

\* max(1, min(int(max_workers or 1), n))
Workers(max_workers, n) == Max(1, Min(IF max_workers = 0 THEN 1 ELSE max_workers, n))

\* the function is entered: with one worker the lookups run in the caller,
\* otherwise every lookup is submitted to the pool
FetchStart ==
  \E movie_ids \in SeqsUpTo({"550", "551"}, MaxIds), max_workers \in {1, DefaultMaxWorkers} :
    \E outcomes \in [1..Len(movie_ids) -> MovieOutcomes] :
      /\ Idle
      /\ IF Workers(max_workers, Len(movie_ids)) = 1
         THEN /\ call' = [op |-> "_fetch_movies_parallel_ordered", pc |-> "done",
                          movie_ids |-> movie_ids, outcomes |-> outcomes,
                          workers |-> 1, pending |-> {}, fallback |-> FALSE,
                          results |-> [i \in 1..Len(movie_ids) |-> PyNone]]
              /\ resp' = Sequential(movie_ids, outcomes)
         ELSE /\ call' = [op |-> "_fetch_movies_parallel_ordered", pc |-> "pool",
                          movie_ids |-> movie_ids, outcomes |-> outcomes,
                          workers |-> Workers(max_workers, Len(movie_ids)),
                          pending |-> 1..Len(movie_ids), fallback |-> FALSE,
                          results |-> [i \in 1..Len(movie_ids) |-> PyNone]]
              /\ resp' = NoResp
      /\ UNCHANGED <<users, userActivities, movieReviews, bookReviews, clock,
                     nextOid, recorded>>

InPool == call.op = "_fetch_movies_parallel_ordered" /\ call.pc = "pool"

\* as_completed yields the future of lookup i: results[i] = fut.result(),
\* or None when the lookup raised
FetchComplete ==
  \E i \in (IF InPool THEN call.pending ELSE {}) :
    LET m == _fetch_movie_simple(PyInt(call.movie_ids[i]), call.outcomes[i])
    IN /\ call' = [call EXCEPT !.pending = @ \ {i},
                               !.results[i] = IF m.t = "raise" THEN PyNone ELSE m]
       /\ UNCHANGED <<users, userActivities, movieReviews, bookReviews, clock,
                      nextOid, recorded, resp>>

\* the pool raises (a thread cannot be started): the lookups are run again
\* in the caller
FetchPoolFails ==
  /\ InPool
  /\ call.pending = 1..Len(call.movie_ids)
  /\ call' = [call EXCEPT !.pc = "done", !.pending = {}, !.fallback = TRUE]
  /\ resp' = Sequential(call.movie_ids, call.outcomes)
  /\ UNCHANGED <<users, userActivities, movieReviews, bookReviews, clock,
                 nextOid, recorded>>

\* return [m for m in results if m]
FetchReturn ==
  /\ InPool
  /\ call.pending = {}
  /\ call' = [call EXCEPT !.pc = "done"]
  /\ resp' = PyList(SelectSeq(call.results, LAMBDA m : Truthy(m)))
  /\ UNCHANGED <<users, userActivities, movieReviews, bookReviews, clock,
                 nextOid, recorded>>

\* the caller takes the result
FetchDone ==
  /\ call.op = "_fetch_movies_parallel_ordered"
  /\ call.pc = "done"
  /\ call' = NoCall
  /\ resp' = NoResp
  /\ UNCHANGED <<users, userActivities, movieReviews, bookReviews, clock,
                 nextOid, recorded>>

NextFetch ==
  \/ FetchStart
  \/ FetchComplete
  \/ FetchPoolFails
  \/ FetchReturn
  \/ FetchDone

SpecFetch == InitLibrary /\ [][NextFetch]_vars

\* the lookups of the batch that succeed, in the order of the caller
Successful(movie_ids, outcomes) ==
  SelectSeq([i \in 1..Len(movie_ids) |->
               _fetch_movie_simple(PyInt(movie_ids[i]), outcomes[i])],
            LAMBDA m : m.t /= "raise" /\ Truthy(m))

FetchReturned == call.op = "_fetch_movies_parallel_ordered" /\ call.pc = "done"

\* C19: for every list of movie ids of length >= 1, every subset of
\* lookups that fail or raise and every completion order,
\* _fetch_movies_parallel_ordered returns exactly the successful lookups in
\* the order of the caller; a failing lookup is omitted and never makes the
\* batch fail or raise.
C19_OrderedAndTolerant ==
  FetchReturned => resp = PyList(Successful(call.movie_ids, call.outcomes))

\* the same statement for the batches whose lookups all ran in the pool
OrderedInPool ==
  (FetchReturned /\ call.workers > 1 /\ ~call.fallback) =>
    resp = PyList(Successful(call.movie_ids, call.outcomes))


(***************************************************************************)
(* Movie ids: the five endpoints that take one                             *)
(***************************************************************************)
\* the <movieID> path segments of the requests
MovieIdStrings ==
  {"550", " 550 ", "abc", "2147483647", "2147483648", "-2147483648", "-2147483649"}

\* the movieId members of the create-review payloads
MovieIdValues ==
  {PyInt("550"), PyInt("2147483647"), PyInt("2147483648"), PyInt("-2147483648"),
   PyInt("-2147483649"), PyStr("abc"), PyStr(" 550 "), PyNone}

\* the request meets no trouble, or the catalog key is not set
IdTroubles == {Calm, [Calm EXCEPT !.key = FALSE]}

\* the four routes on a user's movie lists
MovieRoute(op, db, userID, movieID, env) ==
  CASE op = "add_watched_movie" -> add_watched_movie(db, userID, movieID, env)
    [] op = "add_watch_later_movie" -> add_watch_later_movie(db, userID, movieID, env)
    [] op = "remove_watched_movie" -> remove_watched_movie(db, userID, movieID, env)
    [] OTHER -> remove_watch_later_movie(db, userID, movieID, env)

MovieListRequest(op) ==
  \E userID \in {"a1", "zz"}, movieID \in MovieIdStrings, trouble \in IdTroubles :
    /\ Idle
    /\ Answer(MovieRoute(op, DB, userID, movieID, Env(trouble)),
              [op |-> op, userID |-> userID, movieID |-> movieID, trouble |-> trouble])

AddWatched == MovieListRequest("add_watched_movie")

AddWatchLater == MovieListRequest("add_watch_later_movie")

RemoveWatched == MovieListRequest("remove_watched_movie")

RemoveWatchLater == MovieListRequest("remove_watch_later_movie")

ReviewAnyMovie ==
  \E userId \in {"a1", "zz"}, movie_id \in MovieIdValues, trouble \in IdTroubles :
    /\ Idle
    /\ nextOid <= MaxActs
    /\ Answer(create_movie_review(DB, ReviewPayload(userId, "movieId", movie_id,
                                                    PyInt("10"), PyStr(" Loved it ")),
                                  Env(trouble)),
              [op |-> "create_movie_review",
               payload |-> ReviewPayload(userId, "movieId", movie_id, PyInt("10"),
                                         PyStr(" Loved it ")),
               trouble |-> trouble])

NextMovieIds ==
  \/ AddWatched
  \/ AddWatchLater
  \/ RemoveWatched
  \/ RemoveWatchLater
  \/ ReviewAnyMovie
  \/ Respond

SpecMovieIds == InitLibrary /\ [][NextMovieIds]_vars

\* the request just answered takes a movie id, and the id it was given
TakesMovieId(c) ==
  c.op \in {"add_watched_movie", "add_watch_later_movie", "remove_watched_movie",
            "remove_watch_later_movie", "create_movie_review"}
GivenMovieId(c) ==
  IF c.op = "create_movie_review" THEN c.payload["movieId"] ELSE PyStr(c.movieID)
GivenUser(c) ==
  IF c.op = "create_movie_review" THEN c.payload["userId"].v ELSE c.userID

\* ids that are no number, ids beyond either end of int32, and the two ends
NonNumericIds == {PyStr("abc"), PyNone}
BeyondInt32 ==
  {PyStr("2147483648"), PyStr("-2147483649"), PyInt("2147483648"), PyInt("-2147483649")}
Int32Ends ==
  {PyStr("2147483647"), PyStr("-2147483648"), PyInt("2147483647"), PyInt("-2147483648")}

\* the response turns the movie id away
TurnsMovieIdAway(r) ==
  /\ r.status = 400
  /\ r.body.error \in {"invalid_movie_id", "movie_id_out_of_range_int32"}

\* C20: add/remove watched, add/remove watch-later and create movie review
\* answer 400 to a movie id that is no number or lies outside
\* [-2147483648, 2147483647], with no catalog call made and the store left as
\* it was; the ids -2147483648 and 2147483647 are not turned away, and a
\* request of an existing user that meets no trouble goes through with them.
C20_MovieIdInt32 ==
  [][TakesMovieId(call') =>
       /\ GivenMovieId(call') \in NonNumericIds \cup BeyondInt32 =>
            /\ resp'.status = 400
            /\ resp'.catalog = 0
            /\ users' = users
            /\ movieReviews' = movieReviews
            /\ bookReviews' = bookReviews
            /\ userActivities' = userActivities
       /\ (GivenMovieId(call') \in NonNumericIds /\ GivenUser(call') = "a1") =>
            resp'.body.error = "invalid_movie_id"
       /\ (GivenMovieId(call') \in BeyondInt32 /\ GivenUser(call') = "a1") =>
            resp'.body.error = "movie_id_out_of_range_int32"
       /\ GivenMovieId(call') \in Int32Ends =>
            /\ ~TurnsMovieIdAway(resp')
            /\ (GivenUser(call') = "a1" /\ call'.trouble = Calm) =>
                 resp'.status \in {200, 201, 409}]_vars

\* 2147483648 was turned away by removewatchedmovie while 2147483647 is on
\* the user's watched list
C20_Witness ==
  /\ call.op = "remove_watched_movie"
  /\ call.movieID = "2147483648"
  /\ call.userID = "a1"
  /\ resp.status = 400
  /\ resp.body.error = "movie_id_out_of_range_int32"
  /\ resp.catalog = 0
  /\ \E i \in 1..Len(GetList(users["a1"], "watchedMovies")) :
       users["a1"]["watchedMovies"][i] = PyInt("2147483647")


(***************************************************************************)
(* friends/routes.py: followers and following; library/routes.py: removing *)
(* a book from a list                                                      *)
(***************************************************************************)
\* str((x or {}).get("_id")) of one list entry: a falsy entry gives "None",
\* a truthy entry that is no dict has no get and raises
EntryId(x) ==
  IF ~Truthy(x) THEN "None"
  ELSE IF x.t = "dict" THEN Str(Get(x.d, "_id"))
  ELSE "raise"

\* a scan that never finds the target
DupScan_Never(current, target_id) == "new"

\* any(str((x or {}).get("_id")) == target_id for x in current): "dup" or
\* "raise" by the first entry that matches or has no get, "new" otherwise
DupScan(current, target_id) ==
  LET hits == {i \in 1..Len(current) : EntryId(current[i]) \in {target_id, "raise"}}
  IN IF hits = {} THEN "new"
     ELSE LET first == CHOOSE i \in hits : \A j \in hits : i <= j
          IN IF EntryId(current[first]) = "raise" THEN "raise" ELSE "dup"

\* the body shared by addFollower and addFollowing
AddNetwork(db, user_id, user_to_add_id, env, field) ==
  IF ~IsValidOid(user_id) \/ ~IsValidOid(user_to_add_id) THEN Out(db, ServerError(500), 0)
  ELSE LET h == Str(ObjectId(user_id))
           t == Str(ObjectId(user_to_add_id))
       IN IF env.fail = "find_user" THEN Out(db, ServerError(500), 0)
          ELSE IF h \notin DOMAIN db.users \/ t \notin DOMAIN db.users
          THEN Out(db, Response(404, ErrorBody("user_not_found")), 0)
          ELSE LET scan == DupScan(GetList(db.users[h], field), t)
               IN IF scan = "raise" THEN Out(db, ServerError(500), 0)
                  ELSE IF scan = "dup"
                  THEN Out(db, Response(409, ErrorBody("duplicate_entry")), 0)
                  ELSE IF env.fail = "add_list" THEN Out(db, ServerError(500), 0)
                  ELSE Out([db EXCEPT !.users =
                              IF field \notin DOMAIN db.users[h]
                              THEN SetField(db.users, h, field, <<build_user_reference(t)>>)
                              ELSE Push(db.users, h, field, build_user_reference(t))],
                           Response(200, [ok |-> TRUE, userId |-> user_id,
                                          userAddedId |-> user_to_add_id]), 0)

\* POST /followers/user/<user_id>/usertoadd/<user_to_add_id>
addFollower(db, user_id, user_to_add_id, env) ==
  AddNetwork(db, user_id, user_to_add_id, env, "followers")

\* POST /following/user/<user_id>/usertoadd/<user_to_add_id>
addFollowing(db, user_id, user_to_add_id, env) ==
  AddNetwork(db, user_id, user_to_add_id, env, "following")

\* {"$pull": {field: {"_id": oid}}}: removes the sub-documents with that _id
PullRef(db_users, h, field, oid) ==
  IF field \notin DOMAIN db_users[h] THEN db_users
  ELSE [db_users EXCEPT ![h] =
          WithField(db_users[h], field,
                    SelectSeq(db_users[h][field],
                              LAMBDA y : ~(y.t = "dict" /\ Get(y.d, "_id") = oid)))]

\* the body shared by removeFollower and removeFollowing; the view returns
\* its body without a status, which is sent as 200
RemoveNetwork(db, user_id, user_to_remove_id, env, field) ==
  IF ~IsValidOid(user_id) \/ ~IsValidOid(user_to_remove_id)
  THEN Out(db, ServerError(500), 0)
  ELSE LET h == Str(ObjectId(user_id))
           t == Str(ObjectId(user_to_remove_id))
       IN IF env.fail = "find_user" THEN Out(db, ServerError(500), 0)
          ELSE IF h \notin DOMAIN db.users \/ t \notin DOMAIN db.users
          THEN Out(db, Response(404, ErrorBody("user_not_found")), 0)
          ELSE IF env.fail = "pull" THEN Out(db, ServerError(500), 0)
          ELSE LET users1 == PullRef(db.users, h, field, PyOid(t))
               IN Out([db EXCEPT !.users = users1],
                      Response(200, [ok |-> TRUE, userId |-> user_id,
                                     RemovedUserId |-> user_to_remove_id,
                                     newCount |-> Len(GetList(users1[h], field)),
                                     modified |-> Len(GetList(users1[h], field))
                                                    /= Len(GetList(db.users[h], field))]), 0)

\* DELETE /followers/user/<user_id>/usertoremove/<user_to_remove_id>
removeFollower(db, user_id, user_to_remove_id, env) ==
  RemoveNetwork(db, user_id, user_to_remove_id, env, "followers")

\* DELETE /following/user/<user_id>/usertoremove/<user_to_remove_id>
removeFollowing(db, user_id, user_to_remove_id, env) ==
  RemoveNetwork(db, user_id, user_to_remove_id, env, "following")

\* the body shared by getFollowers and getFollowing: the entries that
\* serialize_network_entry gives a userId are counted
GetNetwork(db, user_id, env, field) ==
  IF ~IsValidOid(user_id) THEN Out(db, ServerError(500), 0)
  ELSE LET h == Str(ObjectId(user_id))
       IN IF env.fail = "find_user" THEN Out(db, ServerError(500), 0)
          ELSE IF h \notin DOMAIN db.users
          THEN Out(db, Response(404, ErrorBody("user_not_found")), 0)
          ELSE LET entries == GetList(db.users[h], field)
               IN IF \E i \in 1..Len(entries) : EntryId(entries[i]) = "raise"
                  THEN Out(db, ServerError(500), 0)
                  ELSE Out(db, Response(200,
                             [userId |-> user_id,
                              count |-> Len(SelectSeq(entries,
                                              LAMBDA x : EntryId(x) /= "None"))]), 0)

\* GET /followers/user/<user_id>
getFollowers(db, user_id, env) == GetNetwork(db, user_id, env, "followers")

\* GET /following/user/<user_id>
getFollowing(db, user_id, env) == GetNetwork(db, user_id, env, "following")

\* the body shared by remove_read_book and remove_tbr_book: len() of a
\* missing list raises and is answered with 404; the final body is returned
\* without a status, which is sent as 200
RemoveBook(db, user_id, book_id, env, field) ==
  IF ~IsValidOid(user_id) THEN Out(db, ServerError(500), 0)
  ELSE LET h == Str(ObjectId(user_id))
           b == get_book_by_id(PyStr(book_id), env.bo)
       IN IF b.t = "none" THEN Out(db, Response(404, ErrorBody("book_not_found")), 1)
          ELSE IF env.fail = "find_user" THEN Out(db, ServerError(500), 1)
          ELSE IF h \notin DOMAIN db.users
          THEN Out(db, Response(404, ErrorBody("user_not_found")), 1)
          ELSE IF field \notin DOMAIN db.users[h]
          THEN Out(db, Response(404, ErrorBody("book_not_found")), 1)
          ELSE IF env.fail = "pull" THEN Out(db, ServerError(500), 1)
          ELSE LET users1 == Pull(db.users, h, field, PyStr(book_id))
               IN Out([db EXCEPT !.users = users1],
                      Response(200, [ok |-> TRUE, userId |-> user_id, bookId |-> book_id,
                                     newCount |-> Len(users1[h][field]),
                                     modified |-> Len(users1[h][field])
                                                    /= Len(db.users[h][field])]), 1)

\* DELETE /read/user/<user_id>/book/<book_id>
remove_read_book(db, user_id, book_id, env) ==
  RemoveBook(db, user_id, book_id, env, "readBooks")

\* DELETE /toberead/user/<user_id>/book/<book_id>
remove_tbr_book(db, user_id, book_id, env) ==
  RemoveBook(db, user_id, book_id, env, "toBeReadBooks")


(***************************************************************************)
(* Identifier validation across the endpoint families                      *)
(***************************************************************************)
NetworkOps ==
  {"addFollower", "addFollowing", "removeFollower", "removeFollowing",
   "getFollowers", "getFollowing"}

\* the routes of friends/routes.py
NetworkRoute(op, db, user_id, other_id, env) ==
  CASE op = "addFollower" -> addFollower(db, user_id, other_id, env)
    [] op = "addFollowing" -> addFollowing(db, user_id, other_id, env)
    [] op = "removeFollower" -> removeFollower(db, user_id, other_id, env)
    [] op = "removeFollowing" -> removeFollowing(db, user_id, other_id, env)
    [] op = "getFollowers" -> getFollowers(db, user_id, env)
    [] OTHER -> getFollowing(db, user_id, env)

NetworkRequest(ops, user_ids, other_ids, troubles) ==
  \E op \in ops, user_id \in user_ids, other_id \in other_ids, trouble \in troubles :
    /\ Idle
    /\ Answer(NetworkRoute(op, DB, user_id, other_id, Env(trouble)),
              [op |-> op, user_id |-> user_id, other_id |-> other_id,
               trouble |-> trouble])

BookListOps == {"add_read_book", "add_tbr_book", "remove_read_book", "remove_tbr_book"}

\* the four routes on a user's book lists
BookRoute(op, db, user_id, book_id, env) ==
  CASE op = "add_read_book" -> add_read_book(db, user_id, book_id, env)
    [] op = "add_tbr_book" -> add_tbr_book(db, user_id, book_id, env)
    [] op = "remove_read_book" -> remove_read_book(db, user_id, book_id, env)
    [] OTHER -> remove_tbr_book(db, user_id, book_id, env)

BookListRequest(ops, user_ids, troubles) ==
  \E op \in ops, user_id \in user_ids, trouble \in troubles :
    /\ Idle
    /\ nextOid <= MaxActs
    /\ Answer(BookRoute(op, DB, user_id, "OL1W", Env(trouble)),
              [op |-> op, user_id |-> user_id, book_id |-> "OL1W", trouble |-> trouble])

\* POST /users/<userId>/activity
ActivityRequest(user_ids) ==
  \E userId \in user_ids :
    /\ Idle
    /\ nextOid <= MaxActs
    /\ LET r == add_user_activity(users, userActivities, userId,
                                  ReviewedPayload("e1"), ActHex[nextOid], clock + 1)
       IN /\ users' = r.users
          /\ userActivities' = r.coll
          /\ clock' = IF r.inserted THEN clock + 1 ELSE clock
          /\ nextOid' = IF r.inserted THEN nextOid + 1 ELSE nextOid
          /\ call' = [op |-> "add_user_activity", userId |-> userId,
                      payload |-> ReviewedPayload("e1")]
          /\ resp' = r.resp
    /\ UNCHANGED <<movieReviews, bookReviews, recorded>>

\* GET /users/<userId>/activity
FeedRequest(user_ids) ==
  \E userId \in user_ids :
    /\ Idle
    /\ call' = [op |-> "list_user_activity", userId |-> userId, limit |-> NoArg]
    /\ resp' = list_user_activity(users, userActivities, userId, NoArg, "natural")
    /\ UNCHANGED <<users, userActivities, movieReviews, bookReviews, clock,
                   nextOid, recorded>>

\* requests that name a malformed id ("zz"), an id of no user or review,
\* and user a1
IdActivity == ActivityRequest({"a1", "zz", GhostHex})

IdFeed == FeedRequest({"a1", "zz"})

IdMovieList ==
  \E op \in {"add_watched_movie", "add_watch_later_movie", "remove_watched_movie",
             "remove_watch_later_movie"} :
    PostMovie(op, {"zz", GhostHex}, {"550"}, {Calm})

IdBookList == BookListRequest(BookListOps, {"a1", "zz", GhostHex}, {Calm})

IdNetwork == NetworkRequest(NetworkOps, {"a1", "zz"}, {"a2", "zz"}, {Calm})

IdDeleteReview == DeleteReviewOf({"movie", "book"}, {"zz", GhostReviewHex}, {Calm})

IdMovieReview ==
  PostMovieReview({ReviewPayload(u, "movieId", PyInt("550"), PyInt("10"),
                                 PyStr(" Loved it ")) : u \in {"zz", GhostHex}}, {Calm})

IdBookReview ==
  PostBookReview({ReviewPayload(u, "bookId", PyStr("OL1W"), PyInt("10"),
                                PyStr(" Loved it ")) : u \in {"zz", GhostHex}}, {Calm})

NextIds ==
  \/ IdActivity
  \/ IdFeed
  \/ IdMovieList
  \/ IdBookList
  \/ IdNetwork
  \/ ListReviewsCalm
  \/ IdDeleteReview
  \/ IdMovieReview
  \/ IdBookReview
  \/ Respond

SpecIds == InitLibrary /\ [][NextIds]_vars

\* the identifier strings a request names
GivenIds(c) ==
  CASE c.op \in {"add_watched_movie", "add_watch_later_movie", "remove_watched_movie",
                 "remove_watch_later_movie"} -> {c.userID}
    [] c.op \in BookListOps \cup {"list_reviews"} -> {c.user_id}
    [] c.op \in {"getFollowers", "getFollowing"} -> {c.user_id}
    [] c.op \in NetworkOps \ {"getFollowers", "getFollowing"} -> {c.user_id, c.other_id}
    [] c.op \in {"add_user_activity", "list_user_activity"} -> {c.userId}
    [] c.op = "delete_review" -> {c.review_id}
    [] c.op \in {"create_movie_review", "add_review_book"} -> {c.payload["userId"].v}
    [] OTHER -> {}

\* strings that are no 24-digit hexadecimal identifier
MalformedIds == {"zz"}

\* the endpoints that test the identifier in a try block of its own
GuardedOps ==
  {"add_watched_movie", "add_watch_later_movie", "remove_watched_movie",
   "remove_watch_later_movie", "add_user_activity", "list_user_activity",
   "list_reviews", "delete_review", "create_movie_review"}

StoreUnchanged ==
  /\ users' = users
  /\ userActivities' = userActivities
  /\ movieReviews' = movieReviews
  /\ bookReviews' = bookReviews

\* C21: a request of the activity, movie-list, book-list, follow,
\* review-listing, review-deletion or review-creation endpoints that names a
\* malformed user or review identifier is answered with a 4xx status, and
\* the store is left as it was.
C21_MalformedIdIs4xx ==
  [][GivenIds(call') \cap MalformedIds /= {} =>
       /\ resp'.status \in 400..499
       /\ StoreUnchanged]_vars

\* the endpoints that test the identifier on its own answer 400
GuardedEndpointsAnswer400 ==
  [][(GivenIds(call') \cap MalformedIds /= {} /\ call'.op \in GuardedOps) =>
       /\ resp'.status = 400
       /\ StoreUnchanged]_vars

\* no request that names a malformed identifier changes the store
MalformedIdChangesNothing ==
  [][GivenIds(call') \cap MalformedIds /= {} => StoreUnchanged]_vars


(***************************************************************************)
(* db.py: the database client of a request.  call holds the application    *)
(* contexts (g of each request in flight) and every client made so far.    *)
(***************************************************************************)
\* most requests begun, and most get_db / get_client calls of one request
MaxRequests == 3
MaxCalls == 2

Contexts == {1, 2}

\* g of a request that holds no mongo_client
NoClient == 0

\* a get_client that makes a client on every call
get_client_Fresh(g, clients) ==
  [g |-> Len(clients) + 1, clients |-> Append(clients, "open")]

\* get_client: the client of g, made and kept in g on the first call
get_client(g, clients) ==
  IF g = NoClient
  THEN [g |-> Len(clients) + 1, clients |-> Append(clients, "open")]
  ELSE [g |-> g, clients |-> clients]

\* close_client: g.pop("mongo_client", None), closed if there is one
close_client(g, clients) ==
  IF g = NoClient THEN [g |-> NoClient, clients |-> clients]
  ELSE [g |-> NoClient, clients |-> [clients EXCEPT ![g] = "closed"]]

IdleContext == [pc |-> "idle", g |-> NoClient, calls |-> 0, made |-> 0, exc |-> FALSE]

InitDb ==
  /\ users = [h \in UserHex |-> UserDoc(h, EmptyMap)]
  /\ userActivities = <<>>
  /\ movieReviews = <<>>
  /\ bookReviews = <<>>
  /\ clock = 0
  /\ nextOid = 1
  /\ recorded = 0
  /\ call = [op |-> "contexts", ctx |-> [r \in Contexts |-> IdleContext],
             clients |-> <<>>, begun |-> 0]
  /\ resp = NoResp

DbFrame ==
  UNCHANGED <<users, userActivities, movieReviews, bookReviews, clock, nextOid,
              recorded, resp>>

\* a request arrives and its application context is pushed
BeginRequest ==
  \E r \in Contexts :
    /\ call.ctx[r].pc = "idle"
    /\ call.begun < MaxRequests
    /\ call' = [call EXCEPT !.ctx[r] = [IdleContext EXCEPT !.pc = "running"],
                            !.begun = call.begun + 1]
    /\ DbFrame

\* the view calls get_db() or get_client()
CallGetDb ==
  \E r \in Contexts :
    /\ call.ctx[r].pc = "running"
    /\ ~call.ctx[r].exc
    /\ call.ctx[r].calls < MaxCalls
    /\ LET got == get_client(call.ctx[r].g, call.clients)
       IN call' = [call EXCEPT !.ctx[r].g = got.g,
                               !.ctx[r].calls = call.ctx[r].calls + 1,
                               !.ctx[r].made = call.ctx[r].made
                                  + Len(got.clients) - Len(call.clients),
                               !.clients = got.clients]
    /\ DbFrame

\* the view raises an exception
ViewRaises ==
  \E r \in Contexts :
    /\ call.ctx[r].pc = "running"
    /\ ~call.ctx[r].exc
    /\ call' = [call EXCEPT !.ctx[r].exc = TRUE]
    /\ DbFrame

\* the request ends, with or without an exception: teardown_appcontext
\* runs close_client and the context is popped
EndRequest ==
  \E r \in Contexts :
    /\ call.ctx[r].pc = "running"
    /\ LET done == close_client(call.ctx[r].g, call.clients)
       IN call' = [call EXCEPT !.ctx[r].pc = "idle", !.ctx[r].g = done.g,
                               !.clients = done.clients]
    /\ DbFrame

NextDb ==
  \/ BeginRequest
  \/ CallGetDb
  \/ ViewRaises
  \/ EndRequest

SpecDb == InitDb /\ [][NextDb]_vars

\* the clients that are open
OpenClients == {i \in 1..Len(call.clients) : call.clients[i] = "open"}

\* C22: a request makes at most one client however often it calls get_db or
\* get_client, and none if it never calls them; every open client is the
\* client of a request still in flight, so once a request has ended, with or
\* without an exception, the client it made is closed and gone from g.
C22_ClientScopedToRequest ==
  /\ \A r \in Contexts :
       /\ call.ctx[r].made <= 1
       /\ call.ctx[r].made = (IF call.ctx[r].calls > 0 THEN 1 ELSE 0)
       /\ call.ctx[r].pc = "idle" => call.ctx[r].g = NoClient
  /\ OpenClients = {call.ctx[r].g : r \in {q \in Contexts : call.ctx[q].pc = "running"}}
                     \ {NoClient}
  /\ \A r, q \in Contexts :
       (r /= q /\ call.ctx[r].g /= NoClient) => call.ctx[r].g /= call.ctx[q].g

\* a request that called get_db twice and raised has ended and its client
\* is closed, while another request holds an open client
C22_Witness ==
  /\ call.op = "contexts"
  /\ call.ctx[1].pc = "idle"
  /\ call.ctx[1].calls = 2
  /\ call.ctx[1].exc
  /\ call.clients = <<"closed", "open">>
  /\ call.ctx[2].g = 2


(***************************************************************************)
(* auth/service.py register_user and users/service.py create_user on a     *)
(* users collection that carries the indexes of scripts/init_db.py.  call  *)
(* holds the requests in flight, resp the answer of each.                  *)
(***************************************************************************)
\* most registrations begun
MaxRegs == 3

Clients == {1, 2}

\* EmailStr: "nomail" is no address; the domain is stored in lower case
ValidEmail(s) == s /= "nomail"
NormalEmail(s) == IF s = "x@EX" THEN "x@ex" ELSE s

Emails == {"x@ex", "x@EX", "y@ex", "nomail"}
UsernamesGiven == {PyNone, PyStr("alice"), PyStr("bob")}

\* the id insert_one gives a new user document
NewUserId(n) == "u" \o ToString(n)

\* user_in.model_dump() with the fields the service adds: username is
\* present, as None, when the payload has none
NewUserDoc(id, payload, withHash, now) ==
  [k \in {"_id", "email", "username", "createdAt", "updatedAt"}
         \cup (IF withHash THEN {"passwordHash"} ELSE {}) |->
     CASE k = "_id" -> PyOid(id)
       [] k = "email" -> PyStr(NormalEmail(payload.email))
       [] k = "username" -> payload.username
       [] k = "passwordHash" -> PyStr("hash")
       [] OTHER -> PyDate(now)]

\* an insert_one into a collection that has no index
insert_one_NoIndex(coll, id, doc) ==
  [ok |-> TRUE, coll |-> [h \in DOMAIN coll \cup {id} |-> IF h = id THEN doc ELSE coll[h]]]

\* insert_one under the unique index on email and the unique sparse index
\* on username (which holds every document that has the field, a null
\* username included): DuplicateKeyError, or the collection with the document
insert_one(coll, id, doc) ==
  IF \E h \in DOMAIN coll :
       \/ Get(coll[h], "email") = Get(doc, "email")
       \/ /\ "username" \in DOMAIN coll[h]
          /\ "username" \in DOMAIN doc
          /\ coll[h]["username"] = doc["username"]
  THEN [ok |-> FALSE, coll |-> coll]
  ELSE [ok |-> TRUE, coll |-> [h \in DOMAIN coll \cup {id} |->
                                 IF h = id THEN doc ELSE coll[h]]]

NoRequest == [op |-> "none", pc |-> "idle"]

InitUsers ==
  /\ users = [h \in {} |-> EmptyMap]
  /\ userActivities = <<>>
  /\ movieReviews = <<>>
  /\ bookReviews = <<>>
  /\ clock = 0
  /\ nextOid = 1
  /\ recorded = 0
  /\ call = [op |-> "registrations", reqs |-> [r \in Clients |-> NoRequest], begun |-> 0]
  /\ resp = [r \in Clients |-> NoResp]

UsersFrame == UNCHANGED <<userActivities, movieReviews, bookReviews, recorded>>

\* POST /register arrives: without a password it is answered at once
BeginRegister ==
  \E r \in Clients, email \in Emails, username \in UsernamesGiven,
     password \in BOOLEAN :
    /\ call.reqs[r].pc = "idle"
    /\ call.begun < MaxRegs
    /\ call' = [call EXCEPT !.begun = call.begun + 1,
                  !.reqs[r] = [op |-> "register_user",
                               pc |-> IF password THEN "find" ELSE "done",
                               payload |-> [email |-> email, username |-> username,
                                            password |-> password],
                               found |-> FALSE]]
    /\ resp' = [resp EXCEPT ![r] = IF password THEN NoResp
                                   ELSE Response(400, ErrorBody("password required"))]
    /\ UNCHANGED <<users, clock, nextOid>>
    /\ UsersFrame

\* register_user: find_one({"email": ...}), then validation of the fields
RegisterFind ==
  \E r \in Clients :
    /\ call.reqs[r].pc = "find"
    /\ LET email == call.reqs[r].payload.email
           existing == \E h \in DOMAIN users : users[h]["email"] = PyStr(email)
       IN /\ call' = [call EXCEPT !.reqs[r].found = existing,
                                  !.reqs[r].pc = IF existing \/ ~ValidEmail(email)
                                                 THEN "done" ELSE "insert"]
          /\ resp' = [resp EXCEPT ![r] =
                        IF existing THEN Response(400, ErrorBody("email_taken"))
                        ELSE IF ~ValidEmail(email)
                        THEN Response(400, ErrorBody("validation"))
                        ELSE NoResp]
    /\ UNCHANGED <<users, clock, nextOid>>
    /\ UsersFrame

\* register_user: insert_one; DuplicateKeyError becomes email_taken
RegisterInsert ==
  \E r \in Clients :
    /\ call.reqs[r].op = "register_user"
    /\ call.reqs[r].pc = "insert"
    /\ LET ins == insert_one(users, NewUserId(nextOid),
                             NewUserDoc(NewUserId(nextOid), call.reqs[r].payload,
                                        TRUE, clock + 1))
       IN /\ users' = ins.coll
          /\ nextOid' = IF ins.ok THEN nextOid + 1 ELSE nextOid
          /\ clock' = IF ins.ok THEN clock + 1 ELSE clock
          /\ resp' = [resp EXCEPT ![r] =
                        IF ins.ok THEN Response(201, [_id |-> NewUserId(nextOid)])
                        ELSE Response(400, ErrorBody("email_taken"))]
    /\ call' = [call EXCEPT !.reqs[r].pc = "done"]
    /\ UsersFrame

\* POST /users arrives: create_user validates the payload
BeginCreate ==
  \E r \in Clients, email \in Emails, username \in UsernamesGiven :
    /\ call.reqs[r].pc = "idle"
    /\ call.begun < MaxRegs
    /\ call' = [call EXCEPT !.begun = call.begun + 1,
                  !.reqs[r] = [op |-> "create_user",
                               pc |-> IF ValidEmail(email) THEN "insert" ELSE "done",
                               payload |-> [email |-> email, username |-> username,
                                            password |-> FALSE],
                               found |-> FALSE]]
    /\ resp' = [resp EXCEPT ![r] = IF ValidEmail(email) THEN NoResp
                                   ELSE Response(500, ErrorBody("internal_error"))]
    /\ UNCHANGED <<users, clock, nextOid>>
    /\ UsersFrame

\* create_user: insert_one; DuplicateKeyError reaches the error handler
CreateInsert ==
  \E r \in Clients :
    /\ call.reqs[r].op = "create_user"
    /\ call.reqs[r].pc = "insert"
    /\ LET ins == insert_one(users, NewUserId(nextOid),
                             NewUserDoc(NewUserId(nextOid), call.reqs[r].payload,
                                        FALSE, clock + 1))
       IN /\ users' = ins.coll
          /\ nextOid' = IF ins.ok THEN nextOid + 1 ELSE nextOid
          /\ clock' = IF ins.ok THEN clock + 1 ELSE clock
          /\ resp' = [resp EXCEPT ![r] =
                        IF ins.ok THEN Response(201, [_id |-> NewUserId(nextOid)])
                        ELSE Response(409, ErrorBody("duplicate_key"))]
    /\ call' = [call EXCEPT !.reqs[r].pc = "done"]
    /\ UsersFrame

\* the answer is sent
RegistrationDone ==
  \E r \in Clients :
    /\ call.reqs[r].pc = "done"
    /\ call' = [call EXCEPT !.reqs[r] = NoRequest]
    /\ resp' = [resp EXCEPT ![r] = NoResp]
    /\ UNCHANGED <<users, clock, nextOid>>
    /\ UsersFrame

NextUsers ==
  \/ BeginRegister
  \/ RegisterFind
  \/ RegisterInsert
  \/ BeginCreate
  \/ CreateInsert
  \/ RegistrationDone

SpecUsers == InitUsers /\ [][NextUsers]_vars

\* no two documents share an email or a username that is not null
UniqueUsers ==
  \A h, k \in DOMAIN users :
    h /= k =>
      /\ users[h]["email"] /= users[k]["email"]
      /\ (Truthy(Get(users[h], "username")) /\ Truthy(Get(users[k], "username")))
           => users[h]["username"] /= users[k]["username"]

\* request r is answered in this step while a document holds its email
AnsweredWhileInUse(r) ==
  /\ call.reqs[r].pc /= "done"
  /\ call'.reqs[r].pc = "done"
  /\ \E h \in DOMAIN users :
       users[h]["email"] = PyStr(NormalEmail(call'.reqs[r].payload.email))

\* C23: in every state reached by interleaved register_user and create_user
\* requests no two user documents share an email and no two share a
\* username; a request answered while a document holds its email is turned
\* away and inserts nothing, and a register_user request (one that carries
\* the password the service asks for first) is answered email_taken.
C23_UniqueEmailAndUsername ==
  /\ []UniqueUsers
  /\ [][\A r \in Clients :
          AnsweredWhileInUse(r) =>
            /\ users' = users
            /\ resp'[r].status \in {400, 409}
            /\ (call'.reqs[r].op = "register_user" /\ call'.reqs[r].payload.password)
                 => resp'[r] = Response(400, ErrorBody("email_taken"))]_vars

\* two registrations of one email both passed the lookup; the second insert
\* was refused and answered email_taken
C23_Witness ==
  /\ call.op = "registrations"
  /\ \A r \in Clients :
       /\ call.reqs[r].op = "register_user"
       /\ call.reqs[r].pc = "done"
       /\ call.reqs[r].payload.email = "x@ex"
       /\ ~call.reqs[r].found
  /\ resp[1].status = 201
  /\ resp[2] = Response(400, ErrorBody("email_taken"))
  /\ Cardinality(DOMAIN users) = 1


(***************************************************************************)
(* Sequential runs of list and review requests of user a1                  *)
(***************************************************************************)
ListsMovie ==
  \E op \in {"add_watched_movie", "add_watch_later_movie", "remove_watched_movie",
             "remove_watch_later_movie"} :
    PostMovie(op, {"a1"}, {"550"}, {Calm, [Calm EXCEPT !.key = FALSE]})

ListsBook ==
  BookListRequest(BookListOps, {"a1"},
                  {Calm, [Calm EXCEPT !.bo = "error"], [Calm EXCEPT !.bo = "no_content"]})

ListsFollow ==
  NetworkRequest({"addFollowing", "removeFollowing", "addFollower"}, {"a1"},
                 {"a3", "A3"}, {Calm})

ListsMovieReview == PostMovieReview({SoundPayload("movieId", PyInt("550"))}, {Calm})

ListsBookReview ==
  PostBookReview({SoundPayload("bookId", PyStr("OL1W"))},
                 {Calm, [Calm EXCEPT !.bo = "error"], [Calm EXCEPT !.bo = "no_content"]})

NextLists ==
  \/ ListsMovie
  \/ ListsBook
  \/ ListsFollow
  \/ ListsMovieReview
  \/ ListsBookReview
  \/ Respond

SpecLists == InitLibrary /\ [][NextLists]_vars

\* the list an add request targets, the entries that stand for the item it
\* names, and the code of its 409
TargetList(c) ==
  CASE c.op = "add_watched_movie" -> "watchedMovies"
    [] c.op = "add_watch_later_movie" -> "watchLaterMovies"
    [] c.op = "add_read_book" -> "readBooks"
    [] c.op = "add_tbr_book" -> "toBeReadBooks"
    [] c.op = "addFollower" -> "followers"
    [] OTHER -> "following"
TargetEntries(c) ==
  CASE c.op \in {"add_watched_movie", "add_watch_later_movie"} -> {PyInt(c.movieID)}
    [] c.op \in {"add_read_book", "add_tbr_book"} -> {PyStr(c.book_id)}
    [] OTHER -> {build_user_reference(Lower(c.other_id))}
DuplicateCode(c) ==
  CASE c.op = "add_watched_movie" -> "already_in_watched"
    [] c.op = "add_watch_later_movie" -> "already_in_watch_later"
    [] OTHER -> "duplicate_entry"

\* the request just answered is an add of user a1 for an item its target
\* list already held
DuplicateAdd ==
  /\ call'.op \in {"add_watched_movie", "add_watch_later_movie", "add_read_book",
                   "add_tbr_book", "addFollower", "addFollowing"}
  /\ \E i \in 1..Len(GetList(users["a1"], TargetList(call'))) :
       users["a1"][TargetList(call')][i] \in TargetEntries(call')

\* no entry occurs twice
NoRepeats(list) == \A i, j \in 1..Len(list) : list[i] = list[j] => i = j

MembershipLists ==
  {"watchedMovies", "watchLaterMovies", "readBooks", "toBeReadBooks", "followers",
   "following"}

\* C24: an add for an item the target list already holds leaves the user
\* documents as they were and logs no activity, and when catalog and store
\* answer it is a 409 with the code of the list (already_in_watched,
\* already_in_watch_later, duplicate_entry); in a sequential run every
\* membership, followers and following list holds each id at most once.
C24_DuplicateAddRefused ==
  /\ [](\A h \in DOMAIN users : \A f \in MembershipLists : NoRepeats(GetList(users[h], f)))
  /\ [][DuplicateAdd =>
          /\ users' = users
          /\ userActivities' = userActivities
          /\ call'.trouble = Calm =>
               /\ resp'.status = 409
               /\ resp'.body.error = DuplicateCode(call')]_vars

\* a follow of a3, spelled in upper case, was refused while a1 follows a3,
\* and a1's watched and read lists are not empty
C24_Witness ==
  /\ call.op = "addFollowing"
  /\ call.other_id = "A3"
  /\ resp.status = 409
  /\ resp.body.error = "duplicate_entry"
  /\ GetList(users["a1"], "following") = <<build_user_reference("a3")>>
  /\ GetList(users["a1"], "watchedMovies") = <<PyInt("550")>>
  /\ GetList(users["a1"], "readBooks") = <<PyStr("OL1W")>>

\* C30: for each user the read and to-be-read book lists share no id, and
\* the watched and watch-later movie lists share no id.
C30_ListsDisjoint ==
  \A h \in DOMAIN users :
    /\ \A i \in 1..Len(GetList(users[h], "readBooks")) :
         ~InList(GetList(users[h], "toBeReadBooks"), users[h]["readBooks"][i])
    /\ \A i \in 1..Len(GetList(users[h], "watchedMovies")) :
         ~InList(GetList(users[h], "watchLaterMovies"), users[h]["watchedMovies"][i])

\* a book marked read by add_read_book or add_review_book and a movie
\* reviewed by create_movie_review are taken off the wishlist
DoneLeavesWishlist ==
  [][resp'.status \in {200, 201} =>
       /\ call'.op \in {"add_read_book", "add_review_book"} =>
            ~InList(GetList(users'["a1"], "toBeReadBooks"), PyStr("OL1W"))
       /\ call'.op = "create_movie_review" =>
            ~InList(GetList(users'["a1"], "watchLaterMovies"), PyInt("550"))]_vars


\* the rows of the activity store with the given id
RowsWithId(coll, oid) == SelectSeq(coll, LAMBDA row : row["_id"] = oid)

\* a user's activities list against the activity store coll: every id in
\* the list is the id of a row of that user, every row of the user is in the
\* list exactly once, and the rows are listed newest first
ActivitiesConsistent(db_users, coll) ==
  \A h \in DOMAIN db_users :
    LET list == GetList(db_users[h], "activities")
    IN /\ \A i \in 1..Len(list) :
            /\ RowsWithId(coll, list[i]) /= <<>>
            /\ RowsWithId(coll, list[i])[1]["userId"] = PyOid(h)
       /\ \A k \in 1..Len(coll) :
            coll[k]["userId"] = PyOid(h) =>
              Cardinality({i \in 1..Len(list) : list[i] = coll[k]["_id"]}) = 1
       /\ \A i, j \in 1..Len(list) :
            (i < j /\ RowsWithId(coll, list[i]) /= <<>> /\ RowsWithId(coll, list[j]) /= <<>>)
              => SortKey(RowsWithId(coll, list[i])[1]) >= SortKey(RowsWithId(coll, list[j])[1])

\* C25: after every completed request each user's activities list is
\* ordered newest first, names only existing rows of that user, and names
\* every row recorded for that user exactly once.
C25_ActivitiesListConsistent == ActivitiesConsistent(users, userActivities)

\* the request met no failing store step
StoreAnswered(c) == "trouble" \notin DOMAIN c \/ c.trouble.fail = "none"

\* a request whose store steps all succeed keeps the lists consistent
ConsistentWhileStoreAnswers ==
  [][(ActivitiesConsistent(users, userActivities) /\ StoreAnswered(call'))
       => ActivitiesConsistent(users', userActivities')]_vars


\* C26: every error body of createbookreview comes with an error status,
\* and the server error code comes with a 500 status and a detail string.
C26_BookReviewErrorsHaveStatus ==
  (call.op = "add_review_book" /\ "error" \in DOMAIN resp.body) =>
    /\ resp.status >= 400
    /\ resp.body.error = "server" =>
         /\ resp.status = 500
         /\ "detail" \in DOMAIN resp.body

\* the error bodies that the view returns with a status of their own carry
\* a 4xx or 500 status
NamedBookReviewErrorsHaveStatus ==
  (call.op = "add_review_book" /\ "error" \in DOMAIN resp.body
     /\ resp.body.error /= "server") =>
    resp.status \in {400, 404, 500}


\* the request just answered is a book add or a book review
BookAdd(c) == c.op \in {"add_read_book", "add_tbr_book", "add_review_book"}

\* C27: when the book catalog lookup fails or finds no book, add_read_book,
\* add_tbr_book and add_review_book answer with an error and leave the user
\* documents, the book reviews and the activity rows as they were.
C27_NoAddWithoutBook ==
  [][(BookAdd(call') /\ call'.trouble.bo \in {"error", "no_content"}) =>
       /\ resp'.status >= 400
       /\ users' = users
       /\ bookReviews' = bookReviews
       /\ userActivities' = userActivities]_vars

\* a lookup that returns nothing (a 2xx answer other than 200) is answered
\* book_not_found and changes nothing
NoAddWhenLookupReturnsNothing ==
  [][(BookAdd(call') /\ call'.trouble.bo = "no_content") =>
       /\ resp'.status = 404
       /\ resp'.body.error = "book_not_found"
       /\ users' = users
       /\ bookReviews' = bookReviews
       /\ userActivities' = userActivities]_vars


(***************************************************************************)
(* Concurrent adds to the lists of user a1: each request reads the user    *)
(* document (find_one) and later writes (update_one); the store runs each  *)
(* of these calls atomically and interleaves the calls of two requests.    *)
(* call holds the requests in flight, resp the answer of each.             *)
(***************************************************************************)
\* most requests begun
MaxRaces == 3

RaceOps ==
  {"add_watched_movie", "add_watch_later_movie", "add_read_book", "add_tbr_book",
   "addFollowing"}

\* the items a request may name
RaceItems(op) ==
  CASE op \in {"add_watched_movie", "add_watch_later_movie"} -> {"550", "551"}
    [] op \in {"add_read_book", "add_tbr_book"} -> {"OL1W", "OL2W"}
    [] OTHER -> {"a2", "a3"}

\* the entry an add writes for its item
RaceEntry(op, item) ==
  CASE op \in {"add_watched_movie", "add_watch_later_movie"} -> PyInt(item)
    [] op \in {"add_read_book", "add_tbr_book"} -> PyStr(item)
    [] OTHER -> build_user_reference(item)

\* the duplicate test of an add on the document that find_one returned
FindStep(op, doc, item) ==
  LET current == GetList(doc, TargetList([op |-> op]))
  IN CASE op \in {"add_watched_movie", "add_watch_later_movie"} ->
            (IF \E i \in 1..Len(current) :
                  py_int(current[i]).ok /\ py_int(current[i]).v = item
             THEN "dup" ELSE "new")
       [] op \in {"add_read_book", "add_tbr_book"} ->
            (IF \E i \in 1..Len(current) : Str(current[i]) = item
             THEN "dup" ELSE "new")
       [] OTHER -> DupScan(current, item)

\* the update_one of an add, chosen by the document that find_one returned:
\* $set of a one-element list when it had no such field, else $addToSet
\* (movies) or $push (books, following)
UpdateStep(op, db_users, doc, item) ==
  LET field == TargetList([op |-> op])
  IN IF field \notin DOMAIN doc
     THEN SetField(db_users, "a1", field, <<RaceEntry(op, item)>>)
     ELSE IF op \in {"add_watched_movie", "add_watch_later_movie"}
     THEN AddToSet(db_users, "a1", field, RaceEntry(op, item))
     ELSE Push(db_users, "a1", field, RaceEntry(op, item))

NoRace == [op |-> "none", pc |-> "idle"]

InitRace ==
  /\ users = [h \in UserHex |-> UserDoc(h, EmptyMap)]
  /\ userActivities = <<>>
  /\ movieReviews = <<>>
  /\ bookReviews = <<>>
  /\ clock = 0
  /\ nextOid = 1
  /\ recorded = 0
  /\ call = [op |-> "concurrent", reqs |-> [r \in Clients |-> NoRace], begun |-> 0]
  /\ resp = [r \in Clients |-> NoResp]

RaceFrame == UNCHANGED <<movieReviews, bookReviews, recorded>>

\* an add request arrives; its ids are well formed and the catalog knows
\* the item
RaceBegin ==
  \E r \in Clients, op \in RaceOps :
    \E item \in RaceItems(op) :
      /\ call.reqs[r].pc = "idle"
      /\ call.begun < MaxRaces
      /\ call' = [call EXCEPT !.begun = call.begun + 1,
                    !.reqs[r] = [op |-> op, pc |-> "find", item |-> item,
                                 user |-> EmptyMap]]
      /\ UNCHANGED <<users, userActivities, clock, nextOid, resp>>
      /\ RaceFrame

\* db.users.find_one and the duplicate test on its result
RaceFind ==
  \E r \in Clients :
    /\ call.reqs[r].pc = "find"
    /\ LET q == call.reqs[r]
           found == FindStep(q.op, users["a1"], q.item)
       IN /\ call' = [call EXCEPT !.reqs[r].user = users["a1"],
                                  !.reqs[r].pc = IF found = "new" THEN "update"
                                                 ELSE "done"]
          /\ resp' = [resp EXCEPT ![r] =
                        CASE found = "new" -> NoResp
                          [] found = "dup" ->
                               Response(409, ErrorBody(DuplicateCode([op |-> q.op])))
                          [] OTHER -> ServerError(500)]
    /\ UNCHANGED <<users, userActivities, clock, nextOid>>
    /\ RaceFrame

\* db.users.update_one on the target list; the movie and follow endpoints
\* answer after it
RaceUpdate ==
  \E r \in Clients :
    /\ call.reqs[r].pc = "update"
    /\ LET q == call.reqs[r]
       IN /\ users' = UpdateStep(q.op, users, q.user, q.item)
          /\ call' = [call EXCEPT !.reqs[r].pc =
                        IF q.op \in {"add_read_book", "add_tbr_book"} THEN "log"
                        ELSE "done"]
          /\ resp' = [resp EXCEPT ![r] =
                        IF q.op \in {"add_read_book", "add_tbr_book"} THEN NoResp
                        ELSE Response(200, [ok |-> TRUE])]
    /\ UNCHANGED <<userActivities, clock, nextOid>>
    /\ RaceFrame

\* the rest of a book add: add_read_book pulls the book from toBeReadBooks,
\* both log the activity and answer
RaceLog ==
  \E r \in Clients :
    /\ call.reqs[r].pc = "log"
    /\ LET q == call.reqs[r]
           db1 == IF q.op = "add_read_book"
                  THEN [DB EXCEPT !.users = Pull(users, "a1", "toBeReadBooks",
                                                 PyStr(q.item))]
                  ELSE DB
           db2 == _log_activity(db1, PyOid("a1"),
                                IF q.op = "add_read_book" THEN "Added book to Read"
                                ELSE "Added book to Read Later",
                                BookMeta(q.item,
                                         IF q.op = "add_read_book" THEN "Read"
                                         ELSE "Read Later",
                                         get_book_by_id(PyStr(q.item), "ok")),
                                Env(Calm))
       IN /\ users' = db2.users
          /\ userActivities' = db2.userActivities
          /\ clock' = clock + 1
          /\ nextOid' = nextOid + 1
          /\ call' = [call EXCEPT !.reqs[r].pc = "done"]
          /\ resp' = [resp EXCEPT ![r] = Response(200, [ok |-> TRUE])]
    /\ RaceFrame

\* the answer is sent
RaceDone ==
  \E r \in Clients :
    /\ call.reqs[r].pc = "done"
    /\ call' = [call EXCEPT !.reqs[r] = NoRace]
    /\ resp' = [resp EXCEPT ![r] = NoResp]
    /\ UNCHANGED <<users, userActivities, clock, nextOid>>
    /\ RaceFrame

NextRace ==
  \/ RaceBegin
  \/ RaceFind
  \/ RaceUpdate
  \/ RaceLog
  \/ RaceDone

SpecRace == InitRace /\ [][NextRace]_vars

\* C28: when two add_watched_movie (or two add_watch_later_movie) requests
\* of one user for distinct movie ids have both been answered ok, both ids
\* are in the list.
C28_NoLostAdd ==
  \A r, q \in Clients :
    (/\ r /= q
     /\ call.reqs[r].pc = "done" /\ call.reqs[q].pc = "done"
     /\ call.reqs[r].op \in {"add_watched_movie", "add_watch_later_movie"}
     /\ call.reqs[q].op = call.reqs[r].op
     /\ call.reqs[r].item /= call.reqs[q].item
     /\ resp[r].status = 200 /\ resp[q].status = 200)
    => /\ InList(GetList(users["a1"], TargetList(call.reqs[r])), PyInt(call.reqs[r].item))
       /\ InList(GetList(users["a1"], TargetList(call.reqs[r])), PyInt(call.reqs[q].item))

\* C29: under every interleaving of requests the readBooks, toBeReadBooks
\* and following lists of a user never hold an id twice.
C29_NoDuplicateUnderRace ==
  \A f \in {"readBooks", "toBeReadBooks", "following"} :
    NoRepeats(GetList(users["a1"], f))

\* $set and $addToSet never leave a movie id twice in a movie list
MovieListsNeverRepeat ==
  \A f \in {"watchedMovies", "watchLaterMovies"} : NoRepeats(GetList(users["a1"], f))

\* the update_one of a movie add leaves its movie id in the list: an id is
\* lost only to the later $set of a request that had read the user before
NoLostAddInTurn ==
  [][\A r \in Clients :
       (/\ call.reqs[r].pc = "update"
        /\ call'.reqs[r].pc = "done"
        /\ call.reqs[r].op \in {"add_watched_movie", "add_watch_later_movie"})
       => InList(GetList(users'["a1"], TargetList(call.reqs[r])),
                 PyInt(call.reqs[r].item))]_vars

====
